---- MODULE Spec2Model ----
(***************************************************************************)
(* AI Tutor Orchestrator: the request path of the tutor API.               *)
(*                                                                         *)
(*   routes.ask_tutor -> routes.get_agent -> <agent>.process               *)
(*       -> BaseAgent.call_openrouter | BaseAgent.call_groq                *)
(*                                                                         *)
(* Text is modelled as TLA+ strings; Python's `in`, str.lower and          *)
(* str.startswith are computed character by character.  An action is the   *)
(* code that runs between two suspension points of the coroutine (a remote *)
(* request in flight, an asyncio.sleep).                                   *)
(***************************************************************************)
EXTENDS Integers, Sequences, FiniteSets, TLC

(***************************************************************************)
(* Bounds of the model and constants of the program                        *)
(***************************************************************************)
\* largest number of OPENROUTER_MODEL_<i> variables set in the environment
MaxModels == 3

\* call_openrouter(prompt, max_retries_per_model: int = 2)
max_retries_per_model == 2

(***************************************************************************)
(* Python strings                                                          *)
(***************************************************************************)
UpperAlpha == "ABCDEFGHIJKLMNOPQRSTUVWXYZ"

LowerAlpha == "abcdefghijklmnopqrstuvwxyz"

\* the lower-case letter of each upper-case letter
LowerOf ==
    [c \in {SubSeq(UpperAlpha, i, i) : i \in 1..Len(UpperAlpha)} |->
        LET i == CHOOSE k \in 1..Len(UpperAlpha) : SubSeq(UpperAlpha, k, k) = c
        IN  SubSeq(LowerAlpha, i, i)]

\* the character at position i of s, lower-cased
lower_char(s, i) ==
    LET c == SubSeq(s, i, i)
    IN  IF c \in DOMAIN LowerOf THEN LowerOf[c] ELSE c

\* str.lower(): every cased character replaced by its lower-case form
\* (low[a, b] is the lower-cased slice s[a..b])
lower(s) ==
    LET low[a \in 1..(Len(s) + 1), b \in 0..Len(s)] ==
            IF a > b THEN ""
            ELSE IF a = b THEN lower_char(s, a)
            ELSE low[a, (a + b) \div 2] \o low[(a + b) \div 2 + 1, b]
    IN  low[1, Len(s)]

\* Python's  kw in s  on strings (s is evaluated once, as t)
contains(s, kw) ==
    \E t \in {s} :
        \E i \in 1..(Len(t) - Len(kw) + 1) : SubSeq(t, i, i + Len(kw) - 1) = kw

\* str.startswith(prefix)
startswith(s, prefix) ==
    Len(s) >= Len(prefix) /\ SubSeq(s, 1, Len(prefix)) = prefix

\* the characters str.strip() removes
Whitespace == {" ", "\t", "\n", "\r"}

\* bool(s): the test of a query without the strip
strip_nonempty_without_strip(s) == Len(s) > 0

\* bool(s.strip()): some character of s is not whitespace
strip_nonempty(s) == \E i \in 1..Len(s) : SubSeq(s, i, i) \notin Whitespace

\* an optional value: None is <<>>, a present value v is <<v>>
None == <<>>

Some(v) == <<v>>

\* Python truthiness of an optional string: None and "" are falsy
truthy(o) == o # None /\ o[1] # ""

(***************************************************************************)
(* Environment: what os.getenv returns to the process                      *)
(***************************************************************************)
OpenRouterKeys ==
    {None, Some("sk-or-v1-your-key-here"), Some("sk-or-v1-8f2c41")}

GroqKeys == {None, Some("gsk_your_key_here"), Some("gsk_4b7d90")}

\* the value of OPENROUTER_MODEL_<i>
ModelName(i) == "vendor/model-" \o ToString(i)

\* the variables of the process environment, and what the installed groq
\* package does with Groq(api_key=None): the package is not part of the
\* repository, and its constructor either builds a client whose api_key is
\* None or refuses the missing key with an exception
Environments ==
    {e \in [USE_LANGGRAPH : {None, Some("false")},
            OPENROUTER_API_KEY : OpenRouterKeys,
            GROQ_API_KEY : GroqKeys,
            models_set : 0..MaxModels,
            Groq_requires_key : BOOLEAN] :
        e.Groq_requires_key => e.GROQ_API_KEY = None}

\* os.getenv(name, default)
getenv(value, default) == IF value = None THEN default ELSE value[1]

\* routes.USE_LANGGRAPH, computed once when the module is imported
USE_LANGGRAPH(e) == lower(getenv(e.USE_LANGGRAPH, "true")) = "true"

\* BaseAgent._load_fallback_models
_load_fallback_models(e) ==
    IF e.models_set > 0
    THEN [i \in 1..e.models_set |-> ModelName(i)]
    ELSE <<"qwen/qwen-2-7b-instruct:free">>

(***************************************************************************)
(* TutorAgent: keyword tables, classification and prompt building           *)
(***************************************************************************)
coding_keywords ==
    <<"python", "javascript", "java", "c++", "html", "css", "react", "node",
      "code", "coding", "programming", "function", "class", "variable", "loop",
      "algorithm", "data structure", "array", "object", "method", "debug",
      "api", "database", "sql", "git", "framework", "library", "syntax",
      "compile", "runtime", "exception", "import", "export", "async">>

academic_keywords ==
    <<"math", "mathematics", "physics", "chemistry", "biology", "history",
      "literature", "science", "equation", "formula", "theorem", "concept",
      "study", "learn", "understand", "explain", "calculate", "solve">>

\* sum(1 for keyword in keywords if keyword in query_lower)
keyword_score(keywords, query_lower) ==
    Cardinality({i \in DOMAIN keywords : contains(query_lower, keywords[i])})

\* the three re.search calls of _classify_query
has_code_patterns(query, query_lower) ==
    \/ \E ch \in {"{", "}", "[", "]", ";"} : contains(query, ch)
    \/ \E kw \in {"def ", "function ", "class ", "import ", "from "} :
           contains(query_lower, kw)
    \/ \E ext \in {".py", ".js", ".java", ".cpp"} : contains(query_lower, ext)

\* _classify_query with the academic test before the coding test
_classify_query_academic_first(query) ==
    LET query_lower == lower(query)
        coding_score == keyword_score(coding_keywords, query_lower)
        academic_score == keyword_score(academic_keywords, query_lower)
    IN  IF academic_score >= 1 THEN "academic"
        ELSE IF coding_score >= 2 \/ has_code_patterns(query, query_lower)
        THEN "coding"
        ELSE "general"

\* TutorAgent._classify_query
_classify_query(query) ==
    LET query_lower == lower(query)
        coding_score == keyword_score(coding_keywords, query_lower)
        academic_score == keyword_score(academic_keywords, query_lower)
    IN  IF coding_score >= 2 \/ has_code_patterns(query, query_lower) THEN "coding"
        ELSE IF academic_score >= 1 THEN "academic"
        ELSE "general"

\* TutorAgent._build_coding_prompt
_build_coding_prompt(query) ==
    "You are an expert programming tutor with deep knowledge in multiple programming languages and software development best practices.\n\nUser's coding question: "
    \o query
    \o "\n\nPlease provide:\n1. A clear, step-by-step explanation\n2. Working code examples when applicable\n3. Best practices and common pitfalls\n4. Alternative approaches if relevant\n\nFocus on being educational and helping the user understand concepts, not just providing solutions."

\* TutorAgent._build_academic_prompt
_build_academic_prompt(query) ==
    "You are an experienced academic tutor skilled in explaining complex concepts in simple, understandable terms.\n\nStudent's question: "
    \o query
    \o "\n\nPlease provide:\n1. A clear explanation of the concept\n2. Real-world examples or analogies\n3. Step-by-step problem solving if applicable\n4. Key points to remember\n\nMake your explanation accessible and engaging for learning."

\* TutorAgent._build_general_prompt
_build_general_prompt(query) ==
    "You are a helpful AI tutor dedicated to supporting student learning across various subjects.\n\nStudent's question: "
    \o query
    \o "\n\nPlease provide a clear, helpful response that:\n1. Addresses the question directly\n2. Provides context and background information\n3. Suggests related topics for further learning\n4. Encourages critical thinking\n\nBe supportive and encouraging in your response."

(***************************************************************************)
(* BaseAgent: the canned demo responses                                    *)
(***************************************************************************)
\* the three literals of _get_demo_groq_response
DemoGroqPhotosynthesis == "Photosynthesis is the process..."

DemoGroqMachineLearning == "Machine Learning (ML) is a subset of..."

DemoGroqGeneric == "I'm an AI tutor ready to help with academic subjects..."

\* BaseAgent._get_demo_groq_response
_get_demo_groq_response(prompt) ==
    LET prompt_lower == lower(prompt)
    IN  IF contains(prompt_lower, "photosynthesis") THEN DemoGroqPhotosynthesis
        ELSE IF contains(prompt_lower, "machine learning") THEN DemoGroqMachineLearning
        ELSE DemoGroqGeneric

\* the three literals of _get_demo_openrouter_response (their first lines)
DemoReverseString == "Here's how to reverse a string in Python:"

DemoSortList == "Here's how to sort a list in Python:"

DemoCodingTutor == "I'm your coding tutor!"

\* BaseAgent._get_demo_openrouter_response
_get_demo_openrouter_response(prompt) ==
    LET prompt_lower == lower(prompt)
    IN  IF contains(prompt_lower, "reverse") /\ contains(prompt_lower, "string")
        THEN DemoReverseString
        ELSE IF contains(prompt_lower, "sort") THEN DemoSortList
        ELSE DemoCodingTutor

(***************************************************************************)
(* BaseAgent.call_openrouter: the fallback list and the retry loop          *)
(*                                                                         *)
(* One activation is a record                                              *)
(*   pc       "idle" | "posting" (a request is in flight) | "sleeping"     *)
(*            | "done" (the call has returned `result`)                    *)
(*   model    model_attempt + 1, the position in openrouter_models         *)
(*   retry    the retry index of the inner loop                            *)
(*   wait     the argument of the asyncio.sleep in progress                *)
(*   sent     history: the number of requests sent to each model           *)
(*   got404   history: the models that answered a request with HTTP 404    *)
(*   content  the content of the latest response, "" when it carried none  *)
(*   answered history: the model whose response carried a non-empty        *)
(*            content, 0 if none did                                       *)
(*   result   the value returned                                           *)
(***************************************************************************)
\* what one awaited client.post can produce: an HTTP status, an exception
\* (httpx.TimeoutException, any other), or a 200 whose payload has no
\* choices, an empty content or a non-empty content
Outcomes ==
    {"429", "404", "401", "403", "500", "timeout", "network",
     "nochoices", "empty", "content"}

\* the non-empty contents a model may answer with
Contents == {"answer A", "answer B"}

\* the activation before the call is entered (only_empty: no response of
\* the call so far was anything but a success with an empty content)
NoCall(n) ==
    [pc |-> "idle", model |-> 0, retry |-> 0, wait |-> 0,
     sent |-> [i \in 1..n |-> 0], got404 |-> {}, content |-> "",
     answered |-> 0, only_empty |-> TRUE, result |-> ""]

\* the agent after a step of call_openrouter, if the loop kept its position
\* in the attribute current_model_index
call_openrouter_self_keeps_position(self, c) ==
    [self EXCEPT !.base.current_model_index = c.model]

\* the agent after a step of call_openrouter that leaves the activation c:
\* the loops iterate with the locals model_attempt, model and retry, and
\* the method assigns to no attribute of self
call_openrouter_self(self, c) == self

\* the key test without the placeholder prefix
openrouter_unconfigured_no_placeholder(key) == ~truthy(key)

\* the key test at the top of call_openrouter
openrouter_unconfigured(key) ==
    ~truthy(key) \/ startswith(key[1], "sk-or-v1-your")

\* the retry loop with the `if content: return content` left out
react_without_return(outcome, retry) ==
    CASE outcome = "429" ->
             [do |-> "continue", sleep |-> 3 * (2 ^ retry)]
      [] outcome \in {"404", "401", "403", "nochoices"} ->
             [do |-> "break", sleep |-> 0]
      [] outcome \in {"content", "empty"} ->
             [do |-> "continue", sleep |-> 0]
      [] outcome = "timeout" ->
             IF retry = max_retries_per_model - 1
             THEN [do |-> "break", sleep |-> 0]
             ELSE [do |-> "continue", sleep |-> 2]
      [] OTHER ->
             IF retry = max_retries_per_model - 1
             THEN [do |-> "break", sleep |-> 0]
             ELSE [do |-> "continue", sleep |-> 1]

\* the retry loop with only 404 in the list of statuses that give up the
\* model: a 401 or 403 reaches raise_for_status
react_401_403_as_errors(outcome, retry) ==
    CASE outcome = "429" ->
             [do |-> "continue", sleep |-> 3 * (2 ^ retry)]
      [] outcome \in {"404"} ->
             [do |-> "break", sleep |-> 0]
      [] outcome = "nochoices" ->
             [do |-> "break", sleep |-> 0]
      [] outcome = "content" ->
             [do |-> "return", sleep |-> 0]
      [] outcome = "empty" ->
             [do |-> "continue", sleep |-> 0]
      [] outcome = "timeout" ->
             IF retry = max_retries_per_model - 1
             THEN [do |-> "break", sleep |-> 0]
             ELSE [do |-> "continue", sleep |-> 2]
      [] OTHER ->
             IF retry = max_retries_per_model - 1
             THEN [do |-> "break", sleep |-> 0]
             ELSE [do |-> "continue", sleep |-> 1]

\* the retry loop with a wait of 3 seconds after every 429
react_429_fixed_wait(outcome, retry) ==
    CASE outcome = "429" ->
             [do |-> "continue", sleep |-> 3]
      [] outcome \in {"404", "401", "403"} ->
             [do |-> "break", sleep |-> 0]
      [] outcome = "nochoices" ->
             [do |-> "break", sleep |-> 0]
      [] outcome = "content" ->
             [do |-> "return", sleep |-> 0]
      [] outcome = "empty" ->
             [do |-> "continue", sleep |-> 0]
      [] outcome = "timeout" ->
             IF retry = max_retries_per_model - 1
             THEN [do |-> "break", sleep |-> 0]
             ELSE [do |-> "continue", sleep |-> 2]
      [] OTHER ->
             IF retry = max_retries_per_model - 1
             THEN [do |-> "break", sleep |-> 0]
             ELSE [do |-> "continue", sleep |-> 1]

\* the retry loop without the last-retry test in the timeout handler
react_timeout_always_sleeps(outcome, retry) ==
    CASE outcome = "429" ->
             [do |-> "continue", sleep |-> 3 * (2 ^ retry)]
      [] outcome \in {"404", "401", "403"} ->
             [do |-> "break", sleep |-> 0]
      [] outcome = "nochoices" ->
             [do |-> "break", sleep |-> 0]
      [] outcome = "content" ->
             [do |-> "return", sleep |-> 0]
      [] outcome = "empty" ->
             [do |-> "continue", sleep |-> 0]
      [] outcome = "timeout" ->
             [do |-> "continue", sleep |-> 2]
      [] OTHER ->
             IF retry = max_retries_per_model - 1
             THEN [do |-> "break", sleep |-> 0]
             ELSE [do |-> "continue", sleep |-> 1]

\* the inner loop leaving the model on a success with an empty content
react_empty_gives_up_model(outcome, retry) ==
    CASE outcome = "429" ->
             [do |-> "continue", sleep |-> 3 * (2 ^ retry)]
      [] outcome \in {"404", "401", "403"} ->
             [do |-> "break", sleep |-> 0]
      [] outcome \in {"nochoices", "empty"} ->
             [do |-> "break", sleep |-> 0]
      [] outcome = "content" ->
             [do |-> "return", sleep |-> 0]
      [] outcome = "timeout" ->
             IF retry = max_retries_per_model - 1
             THEN [do |-> "break", sleep |-> 0]
             ELSE [do |-> "continue", sleep |-> 2]
      [] OTHER ->
             IF retry = max_retries_per_model - 1
             THEN [do |-> "break", sleep |-> 0]
             ELSE [do |-> "continue", sleep |-> 1]

\* the body of the retry loop after the response: what the loop does next
\* ("return", "break" out of the retry loop, "continue" with the next retry)
\* and the sleep that precedes it
react(outcome, retry) ==
    CASE outcome = "429" ->
             [do |-> "continue", sleep |-> 3 * (2 ^ retry)]
      [] outcome \in {"404", "401", "403"} ->
             [do |-> "break", sleep |-> 0]
      [] outcome = "nochoices" ->
             [do |-> "break", sleep |-> 0]
      [] outcome = "content" ->
             [do |-> "return", sleep |-> 0]
      [] outcome = "empty" ->
             [do |-> "continue", sleep |-> 0]
      [] outcome = "timeout" ->
             IF retry = max_retries_per_model - 1
             THEN [do |-> "break", sleep |-> 0]
             ELSE [do |-> "continue", sleep |-> 2]
      [] OTHER ->
             IF retry = max_retries_per_model - 1
             THEN [do |-> "break", sleep |-> 0]
             ELSE [do |-> "continue", sleep |-> 1]

\* the inner loop running one iteration too many
next_iteration_off_by_one(model, retry, do) ==
    IF do = "continue" /\ retry + 1 <= max_retries_per_model
    THEN [model |-> model, retry |-> retry + 1]
    ELSE [model |-> model + 1, retry |-> 0]

\* the loops starting over from the first model once a model has used its
\* retries
next_iteration_back_to_first(model, retry, do) ==
    IF do = "continue" /\ retry + 1 < max_retries_per_model
    THEN [model |-> model, retry |-> retry + 1]
    ELSE IF do = "break" THEN [model |-> model + 1, retry |-> 0]
    ELSE [model |-> 1, retry |-> 0]

\* the two for-loops: the iteration that follows (model, retry)
next_iteration(model, retry, do) ==
    IF do = "continue" /\ retry + 1 < max_retries_per_model
    THEN [model |-> model, retry |-> retry + 1]
    ELSE [model |-> model + 1, retry |-> 0]

\* the loops without the demo fallback after them: the call returns an
\* empty text once the list is exhausted
enter_iteration_no_fallback(c, pos, models, prompt) ==
    IF pos.model > Len(models) \/ max_retries_per_model < 1
    THEN [c EXCEPT !.pc = "done", !.model = pos.model, !.retry = 0, !.wait = 0,
                   !.result = ""]
    ELSE [c EXCEPT !.pc = "posting", !.model = pos.model, !.retry = pos.retry,
                   !.wait = 0, !.sent[pos.model] = @ + 1]

\* run the loops from iteration `pos` up to the next await: the POST of that
\* iteration, or the return of the demo response once the list is exhausted
enter_iteration(c, pos, models, prompt) ==
    IF pos.model > Len(models) \/ max_retries_per_model < 1
    THEN [c EXCEPT !.pc = "done", !.model = pos.model, !.retry = 0, !.wait = 0,
                   !.result = _get_demo_openrouter_response(prompt)]
    ELSE [c EXCEPT !.pc = "posting", !.model = pos.model, !.retry = pos.retry,
                   !.wait = 0, !.sent[pos.model] = @ + 1]

\* call_openrouter up to its first await
call_openrouter(key, models, prompt) ==
    IF openrouter_unconfigured(key)
    THEN [NoCall(Len(models)) EXCEPT
              !.pc = "done", !.result = _get_demo_openrouter_response(prompt)]
    ELSE enter_iteration(NoCall(Len(models)), [model |-> 1, retry |-> 0],
                         models, prompt)

\* call_openrouter from the arrival of a response up to the next await
on_response(c, outcome, content, models, prompt) ==
    LET r == react(outcome, c.retry)
        h == [c EXCEPT !.got404 = IF outcome = "404" THEN @ \cup {c.model} ELSE @,
                       !.content = content,
                       !.answered = IF outcome = "content" THEN c.model ELSE @,
                       !.only_empty = @ /\ outcome = "empty"]
    IN  IF r.do = "return"
        THEN [h EXCEPT !.pc = "done", !.result = content]
        ELSE IF r.sleep > 0
        THEN [h EXCEPT !.pc = "sleeping", !.wait = r.sleep]
        ELSE enter_iteration(h, next_iteration(c.model, c.retry, r.do),
                             models, prompt)

\* call_openrouter from the end of an asyncio.sleep up to the next await:
\* every sleep of the loop is followed by the next retry iteration
on_wake(c, models, prompt) ==
    enter_iteration(c, next_iteration(c.model, c.retry, "continue"),
                    models, prompt)

(***************************************************************************)
(* BaseAgent.call_groq: one blocking request, no retry                     *)
(***************************************************************************)
\* what groq_client.chat.completions.create can produce
GroqOutcomes == {"content", "empty", "exception"}

\* call_groq(prompt, model: str = "llama-3.3-70b-versatile")
groq_default_model == "llama-3.3-70b-versatile"

\* the key test at the top of call_groq
groq_unconfigured(key) ==
    ~truthy(key) \/ startswith(key[1], "gsk_your")

NoGroq == [pc |-> "idle", requests |-> 0, result |-> ""]

\* call_groq up to the remote request
call_groq(key, prompt) ==
    IF groq_unconfigured(key)
    THEN [pc |-> "done", requests |-> 0,
          result |-> _get_demo_groq_response(prompt)]
    ELSE [pc |-> "requesting", requests |-> 1, result |-> ""]

\* call_groq repeating the request once after an exception
on_groq_outcome_retries_once(g, outcome, content, prompt) ==
    IF outcome = "exception" /\ g.requests < 2
    THEN [g EXCEPT !.requests = @ + 1]
    ELSE [g EXCEPT !.pc = "done",
                   !.result = IF outcome = "content" THEN content
                              ELSE _get_demo_groq_response(prompt)]

\* call_groq from the outcome of the request to its return
on_groq_outcome(g, outcome, content, prompt) ==
    [g EXCEPT !.pc = "done",
              !.result = IF outcome = "content" THEN content
                         ELSE _get_demo_groq_response(prompt)]

(***************************************************************************)
(* The agents and routes.get_agent                                         *)
(***************************************************************************)
NoAgent == [class |-> "none"]

\* BaseAgent.__init__ raises: Groq(api_key=os.getenv("GROQ_API_KEY")) refuses
\* a missing key
BaseAgent_init_raises(e) == e.Groq_requires_key /\ e.GROQ_API_KEY = None

\* BaseAgent.__init__: the fields the callers read
BaseAgent_init(e) ==
    [groq_api_key |-> e.GROQ_API_KEY,
     openrouter_key |-> e.OPENROUTER_API_KEY,
     openrouter_models |-> _load_fallback_models(e),
     current_model_index |-> 0]

\* TutorAgent.__init__
TutorAgent_init(e) ==
    [class |-> "TutorAgent", agent_type |-> "tutor", base |-> BaseAgent_init(e)]

\* the names the class statement of LangGraphTutorAgent binds: its defs at
\* class level.  `def _tool_selection_node` stands inside the body of
\* _parameter_extraction_node, after that method's return statement, so the
\* class statement binds no attribute of that name
LangGraphTutorAgent_attributes ==
    {"__init__", "_create_graph", "_parameter_extraction_node",
     "_tool_execution_node", "process"}

\* the names BaseAgent binds
BaseAgent_attributes ==
    {"__init__", "_load_fallback_models", "get_http_client", "close_http_client",
     "process", "call_groq", "call_openrouter", "_get_demo_groq_response",
     "_get_demo_openrouter_response", "__del__"}

\* the instance attributes set by the time __init__ calls _create_graph
LangGraphTutorAgent_fields ==
    {"groq_client", "openrouter_key", "openrouter_models", "current_model_index",
     "timeout", "limits", "_http_client", "param_extractor", "note_maker",
     "flashcard_gen", "concept_explainer"}

\* _create_graph: the attributes of self that the three add_node calls read
_create_graph_lookups ==
    <<"_parameter_extraction_node", "_tool_selection_node", "_tool_execution_node">>

\* LangGraphTutorAgent.__init__ raises AttributeError when _create_graph
\* reads an attribute that neither the instance nor its classes have
LangGraphTutorAgent_init_raises ==
    \E i \in DOMAIN _create_graph_lookups :
        _create_graph_lookups[i] \notin
            (LangGraphTutorAgent_attributes \cup BaseAgent_attributes
             \cup LangGraphTutorAgent_fields)

\* LangGraphTutorAgent.__init__, when it does not raise
LangGraphTutorAgent_init(e) ==
    [class |-> "LangGraphTutorAgent", base |-> BaseAgent_init(e)]

\* routes.get_agent calls LangGraphTutorAgent(): in the branch of the flag,
\* on each call of get_agent
get_agent_constructs_graph(e) == USE_LANGGRAPH(e)

\* what the history of the server process records: whether some call of
\* get_agent has called LangGraphTutorAgent() since the process started
NoHistory == [graph_attempted |-> FALSE]

\* the history after a call of get_agent
get_agent_history(h, e) ==
    [h EXCEPT !.graph_attempted = @ \/ get_agent_constructs_graph(e)]

\* routes.get_agent raises: TutorAgent() is built outside any try, in the
\* else branch and in the except clause that follows a failed
\* LangGraphTutorAgent()
get_agent_raises(e) == BaseAgent_init_raises(e)

\* routes.get_agent, when it returns
get_agent(e) ==
    IF USE_LANGGRAPH(e)
    THEN IF ~(BaseAgent_init_raises(e) \/ LangGraphTutorAgent_init_raises)
         THEN [agent |-> LangGraphTutorAgent_init(e), architecture |-> "langgraph"]
         ELSE [agent |-> TutorAgent_init(e), architecture |-> "standard"]
    ELSE [agent |-> TutorAgent_init(e), architecture |-> "standard"]

(***************************************************************************)
(* TutorAgent.process                                                      *)
(*                                                                         *)
(* One activation is a record                                              *)
(*   pc             "idle" | "awaiting" (a model caller) | "returned"      *)
(*                  | "raised" (an exception left process)                 *)
(*   classified     history: the number of _classify_query calls           *)
(*   classification the local variable of that name, "" before it is set   *)
(*   handlers       history: the handlers invoked, in order                *)
(*   prompt         the prompt handed to the model caller                  *)
(*   result         the dict returned                                      *)
(***************************************************************************)
NoResult == [model_used |-> ""]

NoProcess ==
    [pc |-> "idle", classified |-> 0, classification |-> "", handlers |-> <<>>,
     prompt |-> "", result |-> NoResult]

ApologyText ==
    "I apologize, but I encountered an error. Please try rephrasing your question."

\* str(e) of the AttributeError that query.lower() raises on a query that
\* is no string
NotAStringError == "'NoneType' object has no attribute 'lower'"

\* process without its except clause: the exception leaves process
process_except_reraise(p, agent, error) == [p EXCEPT !.pc = "raised"]

\* the except clause of TutorAgent.process
process_except(p, agent, error) ==
    [p EXCEPT !.pc = "returned",
              !.result = [agent |-> agent.agent_type,
                          response |-> ApologyText,
                          model_used |-> "error",
                          error |-> error]]

\* the branches with the academic one calling the coding model
process_branch_academic_to_openrouter(classification, query) ==
    IF classification = "coding"
    THEN [prompt |-> _build_coding_prompt(query), handler |-> "call_openrouter"]
    ELSE IF classification = "academic"
    THEN [prompt |-> _build_academic_prompt(query), handler |-> "call_openrouter"]
    ELSE [prompt |-> _build_general_prompt(query), handler |-> "call_groq"]

\* the branch of TutorAgent.process that a classification takes: the prompt
\* builder and the model caller
process_branch(classification, query) ==
    IF classification = "coding"
    THEN [prompt |-> _build_coding_prompt(query), handler |-> "call_openrouter"]
    ELSE IF classification = "academic"
    THEN [prompt |-> _build_academic_prompt(query), handler |-> "call_groq"]
    ELSE [prompt |-> _build_general_prompt(query), handler |-> "call_groq"]

\* TutorAgent.process from its entry to the await of the model caller
process_enter(agent, request) ==
    IF ~request.is_str
    THEN process_except([NoProcess EXCEPT !.classified = 1], agent, NotAStringError)
    ELSE LET classification == _classify_query(request.query)
             branch == process_branch(classification, request.query)
         IN  [NoProcess EXCEPT !.pc = "awaiting",
                               !.classified = 1,
                               !.classification = classification,
                               !.handlers = <<branch.handler>>,
                               !.prompt = branch.prompt]

\* TutorAgent.process from the return of the model caller to its own return
process_return(p, agent, response) ==
    [p EXCEPT !.pc = "returned",
              !.result =
                  IF p.classification = "coding"
                  THEN [agent |-> agent.agent_type, response |-> response,
                        model_used |-> "openrouter_deepcoder",
                        classification |-> "coding", confidence |-> "high"]
                  ELSE IF p.classification = "academic"
                  THEN [agent |-> agent.agent_type, response |-> response,
                        model_used |-> "groq_mixtral",
                        classification |-> "academic", confidence |-> "high"]
                  ELSE [agent |-> agent.agent_type, response |-> response,
                        model_used |-> "groq_mixtral",
                        classification |-> "general", confidence |-> "medium"]]

(***************************************************************************)
(* LangGraphTutorAgent: parameter extraction, tool selection and tool      *)
(* execution, the three nodes of the graph                                 *)
(***************************************************************************)
\* ParameterExtractor.subject_keywords, in the order of the dict
subject_keywords ==
    <<[subject |-> "mathematics",
       keywords |-> <<"math", "calculus", "algebra", "geometry", "derivative",
                      "integral", "equation">>],
      [subject |-> "physics",
       keywords |-> <<"physics", "force", "energy", "momentum", "quantum",
                      "mechanics">>],
      [subject |-> "chemistry",
       keywords |-> <<"chemistry", "chemical", "reaction", "molecule", "atom",
                      "bond">>],
      [subject |-> "biology",
       keywords |-> <<"biology", "cell", "dna", "photosynthesis", "evolution",
                      "organism">>],
      [subject |-> "computer_science",
       keywords |-> <<"programming", "code", "algorithm", "python", "java",
                      "data structure">>],
      [subject |-> "history",
       keywords |-> <<"history", "war", "revolution", "ancient", "civilization">>],
      [subject |-> "english",
       keywords |-> <<"grammar", "literature", "essay", "writing", "shakespeare">>]>>

\* ParameterExtractor.difficulty_indicators, in the order of the dict
difficulty_indicators ==
    <<[difficulty |-> "easy",
       indicators |-> <<"basic", "simple", "introduction", "beginner",
                        "struggling", "confused">>],
      [difficulty |-> "medium",
       indicators |-> <<"intermediate", "moderate", "standard", "regular">>],
      [difficulty |-> "hard",
       indicators |-> <<"advanced", "complex", "challenging", "expert",
                        "difficult">>]>>

\* ParameterExtractor.emotional_indicators, in the order of the dict
emotional_indicators ==
    <<[emotion |-> "confused",
       indicators |-> <<"confused", "lost", "dont understand", "don't get",
                        "unclear">>],
      [emotion |-> "anxious",
       indicators |-> <<"worried", "stressed", "nervous", "struggling",
                        "hard time">>],
      [emotion |-> "frustrated",
       indicators |-> <<"frustrated", "stuck", "cant figure", "can't solve">>],
      [emotion |-> "focused",
       indicators |-> <<"ready", "focused", "determined", "want to learn">>],
      [emotion |-> "excited",
       indicators |-> <<"excited", "interested", "curious", "love", "enjoy">>]>>

\* ParameterExtractor.__init__: the attributes of an extractor
ParameterExtractor_init ==
    [subject_keywords |-> subject_keywords,
     difficulty_indicators |-> difficulty_indicators,
     emotional_indicators |-> emotional_indicators]

\* any(keyword in text for keyword in keywords)
any_keyword(keywords, text) ==
    \E i \in DOMAIN keywords : contains(text, keywords[i])

\* the least element of a non-empty set of integers
first_of(hits) == CHOOSE i \in hits : \A j \in hits : i <= j

\* ParameterExtractor._extract_subject
_extract_subject(self, query) ==
    LET query_lower == lower(query)
        hits == {i \in DOMAIN self.subject_keywords :
                     any_keyword(self.subject_keywords[i].keywords, query_lower)}
    IN  IF hits = {} THEN "general"
        ELSE self.subject_keywords[first_of(hits)].subject

\* ParameterExtractor._infer_difficulty
_infer_difficulty(self, query) ==
    LET query_lower == lower(query)
        hits == {i \in DOMAIN self.difficulty_indicators :
                     any_keyword(self.difficulty_indicators[i].indicators,
                                 query_lower)}
    IN  IF hits = {} THEN "medium"
        ELSE self.difficulty_indicators[first_of(hits)].difficulty

\* ParameterExtractor._detect_emotional_state
_detect_emotional_state(self, query) ==
    LET query_lower == lower(query)
        hits == {i \in DOMAIN self.emotional_indicators :
                     any_keyword(self.emotional_indicators[i].indicators,
                                 query_lower)}
    IN  IF hits = {} THEN "neutral"
        ELSE self.emotional_indicators[first_of(hits)].emotion

\* ParameterExtractor._infer_teaching_style
_infer_teaching_style(query) ==
    LET query_lower == lower(query)
    IN  IF any_keyword(<<"show", "visual", "diagram", "image", "picture">>,
                       query_lower)
        THEN "visual"
        ELSE IF any_keyword(<<"why", "reason", "think", "understand">>, query_lower)
        THEN "socratic"
        ELSE IF any_keyword(<<"watch", "video", "do it myself">>, query_lower)
        THEN "flipped"
        ELSE "direct"

\* ParameterExtractor._detect_question_type
_detect_question_type(query) ==
    LET query_lower == lower(query)
    IN  IF contains(query_lower, "multiple choice") \/ contains(query_lower, "mcq")
        THEN "multiple_choice"
        ELSE IF contains(query_lower, "true") /\ contains(query_lower, "false")
        THEN "true_false"
        ELSE IF contains(query_lower, "short answer") THEN "short_answer"
        ELSE IF contains(query_lower, "essay") THEN "essay"
        ELSE "mixed"

\* ParameterExtractor._should_include_examples
_should_include_examples(query) ==
    any_keyword(<<"example", "instance", "show me", "demonstrate">>, lower(query))

\* ParameterExtractor._should_include_analogies
_should_include_analogies(query) ==
    any_keyword(<<"like", "similar", "analogy", "compare", "understand">>,
                lower(query))

\* ParameterExtractor._infer_depth
_infer_depth(query) ==
    LET query_lower == lower(query)
    IN  IF any_keyword(<<"brief", "quick", "summary", "overview">>, query_lower)
        THEN "brief"
        ELSE IF any_keyword(<<"detailed", "depth", "thorough", "comprehensive">>,
                            query_lower)
        THEN "detailed"
        ELSE "moderate"

\* the decimal digits and their values
DigitValue ==
    [c \in {"0", "1", "2", "3", "4", "5", "6", "7", "8", "9"} |->
        CHOOSE v \in 0..9 : SubSeq("0123456789", v + 1, v + 1) = c]

is_digit(s, i) == i >= 1 /\ i <= Len(s) /\ SubSeq(s, i, i) \in DOMAIN DigitValue

\* int(s[from..to]) for a run of digits
RECURSIVE int_of(_, _, _)
int_of(s, from, to) ==
    IF to < from THEN 0
    ELSE 10 * int_of(s, from, to - 1) + DigitValue[SubSeq(s, to, to)]

\* ParameterExtractor._extract_count: re.findall of (\d+)\s*(?:unit)? gives
\* the digit runs of the query in order, the unit being optional; the count
\* is the first run
_extract_count(query) ==
    LET q == lower(query)
        starts == {i \in 1..Len(q) : is_digit(q, i)}
    IN  IF starts # {}
        THEN LET from == first_of(starts)
                 to == CHOOSE j \in from..Len(q) :
                           /\ \A k \in from..j : is_digit(q, k)
                           /\ ~is_digit(q, j + 1)
             IN  int_of(q, from, to)
        ELSE IF contains(q, "quiz") \/ contains(q, "test") THEN 10
        ELSE IF contains(q, "flashcard") THEN 15
        ELSE 5

\* _infer_note_style with no style when the query names none
_infer_note_style_without_default(query) ==
    LET query_lower == lower(query)
    IN  IF contains(query_lower, "outline") \/ contains(query_lower, "bullet")
        THEN "outline"
        ELSE IF contains(query_lower, "mind map") \/ contains(query_lower, "diagram")
        THEN "mind_map"
        ELSE IF contains(query_lower, "cornell") THEN "cornell"
        ELSE ""

\* ParameterExtractor._infer_note_style
_infer_note_style(query) ==
    LET query_lower == lower(query)
    IN  IF contains(query_lower, "outline") \/ contains(query_lower, "bullet")
        THEN "outline"
        ELSE IF contains(query_lower, "mind map") \/ contains(query_lower, "diagram")
        THEN "mind_map"
        ELSE IF contains(query_lower, "cornell") THEN "cornell"
        ELSE "outline"

\* \w of Python's re on the characters the queries use
WordChars ==
    {SubSeq(LowerAlpha, i, i) : i \in 1..Len(LowerAlpha)}
    \cup {SubSeq(UpperAlpha, i, i) : i \in 1..Len(UpperAlpha)}
    \cup {"0", "1", "2", "3", "4", "5", "6", "7", "8", "9", "_"}

is_word_char(s, i) == i >= 1 /\ i <= Len(s) /\ SubSeq(s, i, i) \in WordChars

\* \b holds between the characters i - 1 and i of s
word_boundary(s, i) == is_word_char(s, i - 1) # is_word_char(s, i)

\* the alternatives of the pattern of _extract_main_concept, in its order
question_words ==
    <<"what", "is", "are", "how", "does", "do", "explain", "tell me about",
      "help me understand">>

\* the alternatives of \b(...)\b that match s at position i
question_word_matches(s, i) ==
    {k \in DOMAIN question_words :
        /\ word_boundary(s, i)
        /\ i + Len(question_words[k]) - 1 <= Len(s)
        /\ SubSeq(s, i, i + Len(question_words[k]) - 1) = question_words[k]
        /\ word_boundary(s, i + Len(question_words[k]))}

\* re.sub(pattern, '', s) from position i on: the leftmost match, and at one
\* position the first alternative that matches
RECURSIVE remove_question_words(_, _)
remove_question_words(s, i) ==
    IF i > Len(s) THEN ""
    ELSE LET found == question_word_matches(s, i)
         IN  IF found = {}
             THEN SubSeq(s, i, i) \o remove_question_words(s, i + 1)
             ELSE LET k == CHOOSE a \in found : \A b \in found : a <= b
                  IN  remove_question_words(s, i + Len(question_words[k]))

\* str.strip(chars)
RECURSIVE strip_chars(_, _)
strip_chars(s, chars) ==
    IF s = "" THEN ""
    ELSE IF SubSeq(s, 1, 1) \in chars THEN strip_chars(SubSeq(s, 2, Len(s)), chars)
    ELSE IF SubSeq(s, Len(s), Len(s)) \in chars
    THEN strip_chars(SubSeq(s, 1, Len(s) - 1), chars)
    ELSE s

\* ParameterExtractor._extract_main_concept
_extract_main_concept(query) ==
    LET concept == strip_chars(remove_question_words(lower(query), 1),
                               {" ", "?", ".", ",", "!"})
    IN  IF concept # "" THEN concept ELSE "general concept"

\* the patterns of _extract_topic, in their order: the literal text each one
\* starts with (the alternatives of (?:on|for) in the last), followed in
\* all of them by  ([\w\s]+?)(?:\.|$|\?)
topic_patterns ==
    <<<<"about ">>, <<"learn ">>, <<"understand ">>, <<"explain ">>,
      <<"on ", "for ">>>>

\* the words the second re.sub of _extract_topic removes
topic_stop_words == <<"the", "a", "an", "how", "what", "why", "when", "where">>

\* [\w\s] at position i of s
is_topic_char(s, i) ==
    is_word_char(s, i) \/ (i >= 1 /\ i <= Len(s) /\ SubSeq(s, i, i) \in Whitespace)

\* the last position of the longest run of [\w\s] that starts at `from`
\* (from - 1 when there is none)
topic_run_end(s, from) ==
    CHOOSE j \in (from - 1)..Len(s) :
        /\ \A k \in from..j : is_topic_char(s, k)
        /\ ~is_topic_char(s, j + 1)

\* the pattern that starts with `prefix` matches s at position i: the prefix
\* is there, at least one character of [\w\s] follows, and the run of them
\* ends at a ".", at a "?" or at the end of s (the group is lazy, and no
\* character of the run can end it earlier)
topic_matches_at(s, prefix, i) ==
    /\ i + Len(prefix) - 1 <= Len(s)
    /\ SubSeq(s, i, i + Len(prefix) - 1) = prefix
    /\ LET from == i + Len(prefix)
           to == topic_run_end(s, from)
       IN  /\ to >= from
           /\ \/ to = Len(s)
              \/ SubSeq(s, to + 1, to + 1) \in {".", "?"}

\* re.search(pattern, s).group(1) for the pattern with these prefixes: the
\* leftmost match; None when there is no match
topic_search(s, prefixes) ==
    LET hits == {i \in 1..Len(s) :
                    \E k \in DOMAIN prefixes : topic_matches_at(s, prefixes[k], i)}
    IN  IF hits = {} THEN None
        ELSE LET i == first_of(hits)
                 k == first_of({a \in DOMAIN prefixes :
                                   topic_matches_at(s, prefixes[a], i)})
                 from == i + Len(prefixes[k])
             IN  Some(SubSeq(s, from, topic_run_end(s, from)))

\* the alternatives of \b(words)\b that match s at position i
word_matches(words, s, i) ==
    {k \in DOMAIN words :
        /\ word_boundary(s, i)
        /\ i + Len(words[k]) - 1 <= Len(s)
        /\ SubSeq(s, i, i + Len(words[k]) - 1) = words[k]
        /\ word_boundary(s, i + Len(words[k]))}

\* re.sub(r'\b(words)\b', '', s) from position i on
RECURSIVE remove_words(_, _, _)
remove_words(words, s, i) ==
    IF i > Len(s) THEN ""
    ELSE LET found == word_matches(words, s, i)
         IN  IF found = {}
             THEN SubSeq(s, i, i) \o remove_words(words, s, i + 1)
             ELSE remove_words(words, s, i + Len(words[first_of(found)]))

\* the topic a pattern gives: its group, stripped, the stop words removed,
\* stripped again; "" when the pattern does not match
topic_of_pattern(s, prefixes) ==
    LET found == topic_search(s, prefixes)
    IN  IF found = None THEN ""
        ELSE strip_chars(remove_words(topic_stop_words,
                                      strip_chars(found[1], Whitespace), 1),
                         Whitespace)

\* str.split(): the words of s, from position i on
RECURSIVE split(_, _)
split(s, i) ==
    IF i > Len(s) THEN <<>>
    ELSE IF SubSeq(s, i, i) \in Whitespace THEN split(s, i + 1)
    ELSE LET j == CHOOSE e \in i..Len(s) :
                      /\ \A k \in i..e : SubSeq(s, k, k) \notin Whitespace
                      /\ e = Len(s) \/ SubSeq(s, e + 1, e + 1) \in Whitespace
         IN  <<SubSeq(s, i, j)>> \o split(s, j + 1)

\* ParameterExtractor._extract_topic
_extract_topic(query) ==
    LET query_lower == lower(query)
        hits == {k \in DOMAIN topic_patterns :
                    topic_of_pattern(query_lower, topic_patterns[k]) # ""}
        words == split(query, 1)
    IN  IF hits # {}
        THEN topic_of_pattern(query_lower, topic_patterns[first_of(hits)])
        ELSE IF Len(words) > 2
        THEN words[1] \o " " \o words[2] \o " " \o words[3]
        ELSE "general topic"

\* dict.get(key, default)
dict_get(d, key, default) == IF key \in DOMAIN d THEN d[key] ELSE default

\* extract_parameters if the keys read from the context were set only when
\* the context has them
extract_parameters_context_keys_optional(self, query, user_context) ==
    LET from_context == {"teaching_style", "mastery_level", "user_id",
                         "grade_level"}
        keys == {"topic", "subject", "difficulty", "count", "num_questions",
                 "emotional_state", "question_type", "include_examples",
                 "include_analogies", "note_taking_style", "desired_depth",
                 "concept_to_explain"}
                    \cup (from_context \cap DOMAIN user_context)
    IN  [k \in keys |->
           CASE k = "topic" -> _extract_topic(query)
             [] k = "subject" -> _extract_subject(self, query)
             [] k = "difficulty" -> _infer_difficulty(self, query)
             [] k \in {"count", "num_questions"} -> _extract_count(query)
             [] k = "emotional_state" -> _detect_emotional_state(self, query)
             [] k = "question_type" -> _detect_question_type(query)
             [] k = "include_examples" -> _should_include_examples(query)
             [] k = "include_analogies" -> _should_include_analogies(query)
             [] k = "note_taking_style" -> _infer_note_style(query)
             [] k = "desired_depth" -> _infer_depth(query)
             [] k = "concept_to_explain" -> _extract_main_concept(query)
             [] OTHER -> user_context[k]]

\* ParameterExtractor.extract_parameters
extract_parameters(self, query, user_context) ==
    [topic |-> _extract_topic(query),
     subject |-> _extract_subject(self, query),
     difficulty |-> _infer_difficulty(self, query),
     count |-> _extract_count(query),
     num_questions |-> _extract_count(query),
     teaching_style |-> dict_get(user_context, "teaching_style",
                                 _infer_teaching_style(query)),
     emotional_state |-> _detect_emotional_state(self, query),
     mastery_level |-> dict_get(user_context, "mastery_level", "intermediate"),
     question_type |-> _detect_question_type(query),
     include_examples |-> _should_include_examples(query),
     include_analogies |-> _should_include_analogies(query),
     note_taking_style |-> _infer_note_style(query),
     desired_depth |-> _infer_depth(query),
     concept_to_explain |-> _extract_main_concept(query),
     user_id |-> dict_get(user_context, "user_id", "guest"),
     grade_level |-> dict_get(user_context, "grade_level", "general")]

\* UserContext().dict(): the defaults of the schema
UserContext_dict ==
    [user_id |-> "student123",
     name |-> "Demo Student",
     grade_level |-> "10",
     learning_style_summary |-> "Visual learner, prefers examples",
     emotional_state_summary |-> "Focused and motivated",
     mastery_level_summary |-> "Level 7: Proficient",
     teaching_style |-> "direct"]

\* the body of `def _tool_selection_node`: the tool it puts in selected_tool
_tool_selection_node(query, params) ==
    LET q == lower(query)
    IN  IF contains(q, "flashcard") \/ contains(q, "card") THEN "flashcard"
        ELSE IF contains(q, "note") \/ params.note_taking_style # ""
        THEN "note_maker"
        ELSE IF contains(q, "explain") \/ params.concept_to_explain # ""
        THEN "concept_explainer"
        ELSE IF params.subject \in {"computer_science", "coding", "programming"}
        THEN "openrouter_agent"
        ELSE "groq_agent"

\* what a coroutine function called without await evaluates to
CoroutineObject == "<coroutine object>"

\* LangGraphTutorAgent._tool_execution_node: the handler called and the
\* response and model_used it leaves in the state.  The model callers are
\* called without await, so no request is sent and the response is the
\* coroutine object; a tool's dict has no "response" key, so the response is
\* the str() of the dict
_tool_execution_node(tool) ==
    IF tool \in {"note_maker", "flashcard", "concept_explainer"}
    THEN [handler |-> tool, response |-> "str(" \o tool \o " result)",
          model_used |-> tool]
    ELSE IF tool = "groq_agent"
    THEN [handler |-> "call_groq", response |-> CoroutineObject,
          model_used |-> "groq_llama_academic"]
    ELSE IF tool = "openrouter_agent"
    THEN [handler |-> "call_openrouter", response |-> CoroutineObject,
          model_used |-> "openrouter_coding"]
    ELSE [handler |-> "", response |-> "No suitable tool found.",
          model_used |-> "none"]

\* LangGraphTutorAgent.process: one pass through the three nodes; it has
\* no try statement, so an exception of a node leaves process
LangGraphTutorAgent_process(request) ==
    IF ~request.is_str
    THEN [NoProcess EXCEPT !.pc = "raised"]
    ELSE LET params == extract_parameters(ParameterExtractor_init, request.query,
                                          UserContext_dict)
             tool == _tool_selection_node(request.query, params)
             done == _tool_execution_node(tool)
         IN  [NoProcess EXCEPT
                  !.pc = "returned",
                  !.classified = 1,
                  !.classification = tool,
                  !.handlers = IF done.handler = "" THEN <<>> ELSE <<done.handler>>,
                  !.result = [agent |-> "tutor_langgraph",
                              response |-> done.response,
                              selected_tool |-> tool,
                              model_used |-> done.model_used]]

(***************************************************************************)
(* The tools of educational_tools and ParameterExtractor.validate_parameters *)
(*                                                                         *)
(* A bag handed to a tool is a function from keys to Python values, a      *)
(* value being <<v>>, or <<>> for None.  A call gives                      *)
(*   [raised |-> FALSE, value |-> the dict returned]  or                   *)
(*   [raised |-> TRUE, error |-> the exception]                            *)
(***************************************************************************)
\* a bag of extract_parameters as the dict a tool receives
boxed(bag) == [k \in DOMAIN bag |-> Some(bag[k])]

\* params.get(key, default)
params_get(params, key, default) ==
    IF key \in DOMAIN params THEN params[key] ELSE Some(default)

\* str(v) inside an f-string, for a str or None
py_str(v) == IF v = None THEN "None" ELSE v[1]

\* the truth value of a bool or None
py_truth(v) == v # None /\ v[1]

\* NoteMakerTool.generate_notes
generate_notes(params) ==
    LET topic == params_get(params, "topic", "General")
    IN  [raised |-> FALSE,
         value |->
           [topic |-> topic,
            title |-> "Study Notes: " \o py_str(topic),
            summary |-> "Comprehensive notes on " \o py_str(topic),
            note_sections |->
              <<[title |-> "Introduction",
                 content |-> "Overview of " \o py_str(topic),
                 key_points |-> <<"Point 1", "Point 2", "Point 3">>,
                 examples |-> IF py_truth(params_get(params, "include_examples", TRUE))
                              THEN <<"Example 1">> ELSE <<>>,
                 analogies |-> IF py_truth(params_get(params, "include_analogies", FALSE))
                               THEN <<"Analogy 1">> ELSE <<>>]>>,
            key_concepts |-> <<"Key concept in " \o py_str(topic)>>,
            practice_suggestions |-> <<"Practice problem 1">>,
            note_taking_style |-> params_get(params, "note_taking_style", "outline")]]

\* FlashcardGeneratorTool.generate_flashcards: range(count) raises TypeError
\* for a count that is None
generate_flashcards(params) ==
    LET count == params_get(params, "count", 5)
        topic == params_get(params, "topic", "General")
        difficulty == params_get(params, "difficulty", "medium")
        card(i) ==
            [title |-> py_str(topic) \o " - Card " \o ToString(i),
             question |-> "Question about " \o py_str(topic) \o " ("
                              \o py_str(difficulty) \o ")",
             answer |-> "Answer explaining " \o py_str(topic),
             example |-> IF py_truth(params_get(params, "include_examples", TRUE))
                         THEN "Practical example" ELSE ""]
    IN  IF count = None
        THEN [raised |-> TRUE,
              error |-> "TypeError: 'NoneType' object cannot be interpreted as an integer"]
        ELSE [raised |-> FALSE,
              value |->
                [flashcards |-> [i \in 1..count[1] |-> card(i)],
                 topic |-> topic,
                 difficulty |-> difficulty,
                 adaptation_details |-> "Adapted for " \o py_str(difficulty)
                                            \o " level"]]

\* ConceptExplainerTool.explain_concept
explain_concept(params) ==
    LET concept == IF "concept_to_explain" \in DOMAIN params
                   THEN params["concept_to_explain"]
                   ELSE params_get(params, "topic", "General")
        depth == params_get(params, "desired_depth", "moderate")
    IN  [raised |-> FALSE,
         value |->
           [explanation |-> "Detailed " \o py_str(depth) \o " explanation of "
                                \o py_str(concept),
            examples |-> IF py_truth(params_get(params, "include_examples", TRUE))
                         THEN <<"Example 1", "Example 2">> ELSE <<>>,
            related_concepts |-> <<"Related concept 1">>,
            visual_aids |-> IF params_get(params, "teaching_style", "") = Some("visual")
                            THEN <<"Diagram suggestion">> ELSE <<>>,
            practice_questions |-> <<"Practice Q1", "Practice Q2">>,
            source_references |-> <<"Reference 1">>]]

\* the tool of each name
run_tool(tool, params) ==
    CASE tool = "note_maker" -> generate_notes(params)
      [] tool = "flashcard" -> generate_flashcards(params)
      [] tool = "concept_explainer" -> explain_concept(params)

\* validate_parameters with the schema default taken before the value of
\* params
validate_parameters_default_first(params, tool_schema) ==
    LET required == dict_get(tool_schema, "required_fields", <<>>)
        optional == dict_get(tool_schema, "optional_fields", <<>>)
        copied == {optional[i] : i \in DOMAIN optional} \cap DOMAIN params
    IN  [field \in DOMAIN required \cup copied |->
            IF field \in DOMAIN required /\ "default" \in DOMAIN required[field]
            THEN Some(required[field].default)
            ELSE IF field \in DOMAIN params THEN params[field]
            ELSE None]

\* ParameterExtractor.validate_parameters
validate_parameters(params, tool_schema) ==
    LET required == dict_get(tool_schema, "required_fields", <<>>)
        optional == dict_get(tool_schema, "optional_fields", <<>>)
        copied == {optional[i] : i \in DOMAIN optional} \cap DOMAIN params
    IN  [field \in DOMAIN required \cup copied |->
            IF field \in DOMAIN params THEN params[field]
            ELSE IF "default" \in DOMAIN required[field]
            THEN Some(required[field].default)
            ELSE None]

(***************************************************************************)
(* routes.ask_tutor                                                        *)
(***************************************************************************)
\* no request taken (db_add: db.add(interaction) has been called for the
\* request)
NoHttp ==
    [pc |-> "idle", architecture |-> "unknown", status |-> 0, body |-> <<>>,
     db_add |-> FALSE, graph_attempt |-> FALSE]

\* Field(..., min_length=1, max_length=2000) of TutorQueryRequest.query
query_min_length == 1

query_max_length == 2000

\* dict.get(key) on a result record
get(d, key) == IF key \in DOMAIN d THEN Some(d[key]) ELSE None

\* ask_tutor when an exception other than HTTPException reaches it
ask_tutor_except(h) ==
    [h EXCEPT !.pc = "responded", !.status = 500,
              !.body = [detail |-> "An unexpected error occurred"]]

\* ask_tutor once process has returned `result`: the 500 for an error
\* record, else the TutorResponse (whose response field must be a str)
ask_tutor_respond(h, result) ==
    IF "error" \in DOMAIN result
    THEN [h EXCEPT !.pc = "responded", !.status = 500,
                   !.body = [detail |-> "Error processing your request. Please try again."]]
    ELSE IF result.response = CoroutineObject
    THEN [ask_tutor_except(h) EXCEPT !.db_add = TRUE]
    ELSE [h EXCEPT !.pc = "responded", !.status = 200, !.db_add = TRUE,
                   !.body = [agent |-> result.agent,
                             response |-> result.response,
                             model_used |-> result.model_used,
                             selected_tool |-> get(result, "selected_tool"),
                             classification |-> get(result, "classification"),
                             architecture |-> h.architecture]]

(***************************************************************************)
(* The requests the model draws                                            *)
(***************************************************************************)
Queries ==
    {"Make flashcards on python function",
     "Explain how to sort a list;",
     "Reverse a string in Python code",
     "Make flashcards on physics",
     "Index card for the weather",
     "Take notes on physics",
     "Explain the weather",
     "Help me with the weather",
     "I'm confused about photosynthesis, can you explain it simply?",
     "What is machine learning?",
     "Give me 3 easy multiple choice questions on derivatives",
     "Generate 7 flashcards",
     "",
     "   "}

NoRequest == [query |-> "", is_str |-> TRUE]

(***************************************************************************)
(* The inputs of the extractor and of the tools, called on their own       *)
(***************************************************************************)
ExtractQueries ==
    {"Generate 7 flashcards",
     "In 2 days generate 7 flashcards",
     "Give me 3 easy multiple choice questions on derivatives",
     "I'm confused about photosynthesis, can you explain it simply?",
     "Take notes",
     "Show me a diagram of the cell",
     ""}

\* the context records: the one LangGraphTutorAgent.process passes, the
\* empty dict, and one that carries the keys extract_parameters reads
Contexts ==
    {UserContext_dict,
     <<>>,
     [teaching_style |-> "visual", mastery_level |-> "advanced",
      user_id |-> "u42", grade_level |-> "12"]}

\* bags with missing keys, as a caller of a tool may build them
PartialBags ==
    {<<>>,
     [topic |-> Some("Photosynthesis")],
     [topic |-> Some("Derivatives"), count |-> Some(2),
      include_examples |-> Some(FALSE), include_analogies |-> Some(TRUE),
      teaching_style |-> Some("visual")]}

\* tool schemas for validate_parameters: a required field with a default,
\* required fields without one, optional fields
ToolSchemas ==
    {[required_fields |-> [topic |-> <<>>, count |-> <<>>],
      optional_fields |-> <<"difficulty", "include_examples">>],
     [required_fields |-> [topic |-> [default |-> "General"]],
      optional_fields |-> <<"count", "desired_depth">>]}

Tools == {"note_maker", "flashcard", "concept_explainer"}

\* the extractor after a call, if extract_parameters kept each query it
\* has seen as a keyword of its first subject
extract_parameters_self_learns_query(self, query, user_context) ==
    LET seen == self.subject_keywords[1].keywords
    IN  IF \E i \in DOMAIN seen : seen[i] = lower(query) THEN self
        ELSE [self EXCEPT !.subject_keywords[1].keywords =
                              Append(@, lower(query))]

\* the attributes of the extractor once extract_parameters has returned:
\* the method assigns to none of them
extract_parameters_self(self, query, user_context) == self

\* the dict validate_parameters was given, once it has returned: the
\* method builds a new dict and only reads params
validate_parameters_params_after(params, tool_schema) == params

\* the dict a tool was given, once the tool has returned or raised: the
\* tools only read it
tool_params_after(tool, params) == params

\* the callers that call call_openrouter on one agent at the same time,
\* and the prompt each of them passes
Callers == {"a", "b"}

CallerPrompt ==
    [a |-> "Reverse a string in Python code", b |-> "Explain the weather"]

NoCalls == [i \in Callers |-> NoCall(0)]

\* the AgentState that LangGraphTutorAgent.process hands to the graph
initial_state(query, user_context) ==
    [query |-> query, user_context |-> user_context,
     extracted_params |-> <<>>, selected_tool |-> "", tool_result |-> <<>>,
     response |-> "", model_used |-> ""]

\* no AgentState yet
NoGraph == [pc |-> "idle", state |-> initial_state("", <<>>)]

\* no extraction yet: a fresh ParameterExtractor (first and last are the
\* first and the latest extraction made on it, others whether a pair other
\* than the first one has been extracted; given and schema are the
\* arguments of the validate_parameters call, given_after the dict after it)
NoExtraction ==
    [pc |-> "idle", self |-> ParameterExtractor_init,
     first |-> <<>>, last |-> <<>>, others |-> FALSE,
     given |-> <<>>, given_after |-> <<>>, schema |-> None,
     params |-> <<>>, tool |-> "", params_after |-> <<>>, out |-> <<>>]

(***************************************************************************)
(* State                                                                   *)
(***************************************************************************)
VARIABLES
    env,        \* the process environment, fixed at start
    request,    \* the request being served: its query, and whether it is a str
    agent,      \* the agent get_agent built for the request
    http,       \* the activation of ask_tutor
    proc,       \* the activation of <agent>.process
    call,       \* the activation of call_openrouter
    groq,       \* the activation of call_groq
    extraction, \* a ParameterExtractor and the tools, called on their own
    history,    \* what has happened since the server process started
    graph,      \* the nodes of the StateGraph, run on an AgentState
    calls       \* activations of call_openrouter that share one agent

vars ==
    <<env, request, agent, http, proc, call, groq, extraction, history, graph,
      calls>>

Init ==
    /\ env \in Environments
    /\ request = NoRequest
    /\ agent = NoAgent
    /\ http = NoHttp
    /\ proc = NoProcess
    /\ call = NoCall(0)
    /\ groq = NoGroq
    /\ extraction = NoExtraction
    /\ history = NoHistory
    /\ graph = NoGraph
    /\ calls = NoCalls

\* the model caller that process awaits has returned this text, if any
caller_returned(c, g) ==
    IF c.pc = "done" THEN Some(c.result)
    ELSE IF g.pc = "done" THEN Some(g.result)
    ELSE None

\* the chain of coroutines resumes after a step of the model caller: once
\* the caller has returned, process returns its record, and ask_tutor (when
\* it is the one awaiting process) sends its response
resume(h, p, c, g, a) ==
    LET text == caller_returned(c, g)
        p2 == IF p.pc = "awaiting" /\ text # None
              THEN process_return(p, a, text[1])
              ELSE p
        h2 == IF h.pc # "awaiting" THEN h
              ELSE IF p2.pc = "returned" THEN ask_tutor_respond(h, p2.result)
              ELSE IF p2.pc = "raised" THEN ask_tutor_except(h)
              ELSE h
    IN  /\ call' = c
        /\ groq' = g
        /\ proc' = p2
        /\ http' = h2

\* <agent>.process(query) up to its first await, with the model caller it
\* enters
process(h, a, r) ==
    IF a.class = "LangGraphTutorAgent"
    THEN resume(h, LangGraphTutorAgent_process(r), NoCall(0), NoGroq, a)
    ELSE
    LET p == process_enter(a, r)
        handler == IF p.pc = "awaiting" THEN p.handlers[1] ELSE ""
        c == IF handler = "call_openrouter"
             THEN call_openrouter(a.base.openrouter_key,
                                  a.base.openrouter_models, p.prompt)
             ELSE NoCall(0)
        g == IF handler = "call_groq"
             THEN call_groq(a.base.groq_api_key, p.prompt)
             ELSE NoGroq
    IN  resume(h, p, c, g, a)

(***************************************************************************)
(* Actions                                                                 *)
(***************************************************************************)
\* POST /ask: request validation, the blank test, get_agent and process up
\* to its first await
ask_tutor(q) ==
    /\ http.pc = "idle"
    /\ proc.pc = "idle"
    /\ request' = [query |-> q, is_str |-> TRUE]
    /\ IF Len(q) < query_min_length \/ Len(q) > query_max_length
       THEN /\ http' = [NoHttp EXCEPT !.pc = "responded", !.status = 422,
                                      !.body = [detail |-> "validation error"]]
            /\ UNCHANGED <<agent, proc, call, groq, history>>
       ELSE IF ~strip_nonempty(q)
       THEN /\ http' = [NoHttp EXCEPT !.pc = "responded", !.status = 400,
                                      !.body = [detail |-> "Query cannot be empty"]]
            /\ UNCHANGED <<agent, proc, call, groq, history>>
       ELSE LET h == [NoHttp EXCEPT
                         !.graph_attempt = get_agent_constructs_graph(env)]
            IN  /\ history' = get_agent_history(history, env)
                /\ IF get_agent_raises(env)
                   THEN /\ http' = ask_tutor_except(h)
                        /\ UNCHANGED <<agent, proc, call, groq>>
                   ELSE LET ga == get_agent(env)
                        IN  /\ agent' = ga.agent
                            /\ process([h EXCEPT !.pc = "awaiting",
                                                 !.architecture = ga.architecture],
                                       ga.agent, request')
    /\ UNCHANGED <<env, extraction, graph, calls>>

\* a response to the request in flight reaches call_openrouter (c is the
\* activation after the step, computed once)
post_response ==
    /\ call.pc = "posting"
    /\ \E outcome \in Outcomes :
         \E content \in (IF outcome = "content" THEN Contents ELSE {""}) :
           \E c \in {on_response(call, outcome, content,
                                  agent.base.openrouter_models, proc.prompt)} :
               resume(http, proc, c, groq, agent)
    /\ UNCHANGED <<env, request, agent, extraction, history, graph, calls>>

\* an asyncio.sleep of call_openrouter ends
sleep_done ==
    /\ call.pc = "sleeping"
    /\ \E c \in {on_wake(call, agent.base.openrouter_models, proc.prompt)} :
         resume(http, proc, c, groq, agent)
    /\ UNCHANGED <<env, request, agent, extraction, history, graph, calls>>

\* the Groq request of call_groq completes
groq_response ==
    /\ groq.pc = "requesting"
    /\ \E outcome \in GroqOutcomes :
         \E content \in (IF outcome = "content" THEN Contents ELSE {""}) :
           \E g \in {on_groq_outcome(groq, outcome, content, proc.prompt)} :
               resume(http, proc, call, g, agent)
    /\ UNCHANGED <<env, request, agent, extraction, history, graph, calls>>

\* the response is sent; the server takes the next request
next_request ==
    /\ http.pc = "responded"
    /\ request' = NoRequest
    /\ agent' = NoAgent
    /\ http' = NoHttp
    /\ proc' = NoProcess
    /\ call' = NoCall(0)
    /\ groq' = NoGroq
    /\ UNCHANGED <<env, extraction, history, graph, calls>>

Next ==
    \/ \E q \in Queries : ask_tutor(q)
    \/ post_response
    \/ sleep_done
    \/ groq_response
    \/ next_request

Spec == Init /\ [][Next]_vars

\* the request-serving program with the scheduling the event loop and the
\* HTTP client give: a request in flight is answered or times out, a sleep
\* ends, the blocking Groq request completes
FairSpec ==
    /\ Spec
    /\ WF_vars(post_response)
    /\ WF_vars(sleep_done)
    /\ WF_vars(groq_response)

(***************************************************************************)
(* process called directly, by a caller that is not ask_tutor: the query   *)
(* need not be a str                                                       *)
(***************************************************************************)
\* queries with one coding keyword, alone and beside an academic keyword,
\* and with two coding keywords beside an academic keyword
ClassifyQueries ==
    {"Python tips", "Learn python", "Explain the python function"}

DirectRequests ==
    [query : Queries \cup ClassifyQueries, is_str : {TRUE}]
        \cup {[query |-> "", is_str |-> FALSE]}

\* agent, _ = get_agent(); await agent.process(query)
process_call(r) ==
    /\ http.pc = "idle"
    /\ proc.pc = "idle"
    /\ ~get_agent_raises(env)
    /\ request' = r
    /\ LET ga == get_agent(env)
       IN  /\ agent' = ga.agent
           /\ process(http, ga.agent, r)
    /\ history' = get_agent_history(history, env)
    /\ UNCHANGED <<env, extraction, graph, calls>>

\* the caller has its record (or the exception); it makes its next call
process_done ==
    /\ http.pc = "idle"
    /\ proc.pc \in {"returned", "raised"}
    /\ request' = NoRequest
    /\ agent' = NoAgent
    /\ proc' = NoProcess
    /\ call' = NoCall(0)
    /\ groq' = NoGroq
    /\ UNCHANGED <<env, http, extraction, history, graph, calls>>

DirectNext ==
    \/ \E r \in DirectRequests : process_call(r)
    \/ post_response
    \/ sleep_done
    \/ groq_response
    \/ process_done

DirectSpec == Init /\ [][DirectNext]_vars

(***************************************************************************)
(* The extractor, the validator and the tools called on their own: one     *)
(* ParameterExtractor serves any number of extractions; a bag (extracted,  *)
(* validated against a schema, or built by the caller) is handed to a tool *)
(***************************************************************************)
\* bag = extractor.extract_parameters(query, user_context)
extract(query, user_context) ==
    /\ extraction.pc \in {"idle", "extracted"}
    /\ \E bag \in {extract_parameters(extraction.self, query, user_context)} :
         LET this == [query |-> query, context |-> user_context, bag |-> bag]
         IN  extraction' =
               [extraction EXCEPT
                  !.pc = "extracted",
                  !.self = extract_parameters_self(extraction.self, query,
                                                   user_context),
                  !.first = IF extraction.pc = "idle" THEN this ELSE @,
                  !.last = this,
                  !.others = \/ @
                             \/ /\ extraction.pc # "idle"
                                /\ \/ extraction.first.query # query
                                   \/ extraction.first.context # user_context,
                  !.params = boxed(bag)]
    /\ UNCHANGED <<env, request, agent, http, proc, call, groq, history, graph, calls>>

\* the caller builds a bag of its own
build(params) ==
    /\ extraction.pc = "idle"
    /\ extraction' = [extraction EXCEPT !.pc = "built", !.params = params]
    /\ UNCHANGED <<env, request, agent, http, proc, call, groq, history, graph, calls>>

\* params = extractor.validate_parameters(params, tool_schema)
validate(tool_schema) ==
    /\ extraction.pc \in {"extracted", "built"}
    /\ extraction' =
         [extraction EXCEPT
            !.pc = "validated",
            !.given = extraction.params,
            !.given_after =
                validate_parameters_params_after(extraction.params, tool_schema),
            !.schema = Some(tool_schema),
            !.params = validate_parameters(extraction.params, tool_schema)]
    /\ UNCHANGED <<env, request, agent, http, proc, call, groq, history, graph, calls>>

\* out = <tool>(params)
call_tool(tool) ==
    /\ extraction.pc \in {"extracted", "built", "validated"}
    /\ extraction' =
         [extraction EXCEPT
            !.pc = "ran",
            !.tool = tool,
            !.params_after = tool_params_after(tool, extraction.params),
            !.out = run_tool(tool, extraction.params)]
    /\ UNCHANGED <<env, request, agent, http, proc, call, groq, history, graph, calls>>

\* the caller drops the extractor and its results
discard ==
    /\ extraction.pc # "idle"
    /\ extraction' = NoExtraction
    /\ UNCHANGED <<env, request, agent, http, proc, call, groq, history, graph, calls>>

ExtractNext ==
    \/ \E q \in ExtractQueries : \E c \in Contexts : extract(q, c)
    \/ \E params \in PartialBags : build(params)
    \/ \E schema \in ToolSchemas : validate(schema)
    \/ \E tool \in Tools : call_tool(tool)
    \/ discard

\* the extractor and the tools read no environment variable: the process
\* environment is the one with nothing set
ExtractInit ==
    /\ Init
    /\ env = [USE_LANGGRAPH |-> None, OPENROUTER_API_KEY |-> None,
              GROQ_API_KEY |-> None, models_set |-> 0,
              Groq_requires_key |-> FALSE]

ExtractSpec == ExtractInit /\ [][ExtractNext]_vars

(***************************************************************************)
(* The node functions of langgraph_agent.py run on an AgentState, in the   *)
(* order of the edges of _create_graph: parameter_extraction,              *)
(* tool_selection, tool_execution.  (As the file stands the def of         *)
(* _tool_selection_node is nested in _parameter_extraction_node after its  *)
(* return, so the served program never reaches these nodes; this           *)
(* specification runs the bodies as they are written.)                     *)
(***************************************************************************)
GraphQueries == Queries \cup ClassifyQueries \cup ExtractQueries

\* an AgentState is built for a query and a user context
graph_invoke(query, user_context) ==
    /\ graph.pc = "idle"
    /\ graph' = [pc |-> "parameter_extraction",
                 state |-> initial_state(query, user_context)]
    /\ UNCHANGED <<env, request, agent, http, proc, call, groq, extraction,
                   history, calls>>

\* _parameter_extraction_node
parameter_extraction ==
    /\ graph.pc = "parameter_extraction"
    /\ graph' = [graph EXCEPT
                    !.pc = "tool_selection",
                    !.state.extracted_params =
                        extract_parameters(ParameterExtractor_init,
                                           graph.state.query,
                                           graph.state.user_context)]
    /\ UNCHANGED <<env, request, agent, http, proc, call, groq, extraction,
                   history, calls>>

\* the body of _tool_selection_node
tool_selection ==
    /\ graph.pc = "tool_selection"
    /\ graph' = [graph EXCEPT
                    !.pc = "tool_execution",
                    !.state.selected_tool =
                        _tool_selection_node(graph.state.query,
                                             graph.state.extracted_params)]
    /\ UNCHANGED <<env, request, agent, http, proc, call, groq, extraction,
                   history, calls>>

\* _tool_execution_node
tool_execution ==
    /\ graph.pc = "tool_execution"
    /\ LET tool == graph.state.selected_tool
           done == _tool_execution_node(tool)
       IN  graph' = [graph EXCEPT
                       !.pc = "END",
                       !.state.tool_result =
                           IF tool \in Tools
                           THEN run_tool(tool, boxed(graph.state.extracted_params))
                           ELSE [response |-> done.response,
                                 model_used |-> done.model_used],
                       !.state.response = done.response,
                       !.state.model_used = done.model_used]
    /\ UNCHANGED <<env, request, agent, http, proc, call, groq, extraction,
                   history, calls>>

\* the final state is dropped
graph_end ==
    /\ graph.pc = "END"
    /\ graph' = NoGraph
    /\ UNCHANGED <<env, request, agent, http, proc, call, groq, extraction,
                   history, calls>>

GraphNext ==
    \/ \E q \in GraphQueries : \E c \in Contexts : graph_invoke(q, c)
    \/ parameter_extraction
    \/ tool_selection
    \/ tool_execution
    \/ graph_end

GraphSpec == ExtractInit /\ [][GraphNext]_vars

(***************************************************************************)
(* Two callers of call_openrouter on one agent: the coroutines interleave  *)
(* at their awaits (the POST and the sleeps)                               *)
(***************************************************************************)
\* largest number of models in the list of the shared agent
MaxConcurrentModels == 2

\* the agent is built
build_agent ==
    /\ agent = NoAgent
    /\ ~get_agent_raises(env)
    /\ agent' = get_agent(env).agent
    /\ history' = get_agent_history(history, env)
    /\ UNCHANGED <<env, request, http, proc, call, groq, extraction, graph,
                   calls>>

\* the activation of caller i moves to c
caller_moves(i, c) ==
    /\ calls' = [calls EXCEPT ![i] = c]
    /\ agent' = call_openrouter_self(agent, c)
    /\ UNCHANGED <<env, request, http, proc, call, groq, extraction, history,
                   graph>>

\* caller i calls agent.call_openrouter(prompt): the call runs up to its
\* first await
caller_enters(i) ==
    /\ agent # NoAgent
    /\ calls[i].pc = "idle"
    /\ \E c \in {call_openrouter(agent.base.openrouter_key,
                                  agent.base.openrouter_models,
                                  CallerPrompt[i])} :
         caller_moves(i, c)

\* the request of caller i is answered
caller_response(i) ==
    /\ calls[i].pc = "posting"
    /\ \E outcome \in Outcomes :
         \E content \in (IF outcome = "content" THEN Contents ELSE {""}) :
           \E c \in {on_response(calls[i], outcome, content,
                                  agent.base.openrouter_models,
                                  CallerPrompt[i])} :
               caller_moves(i, c)

\* the sleep of caller i ends
caller_wakes(i) ==
    /\ calls[i].pc = "sleeping"
    /\ \E c \in {on_wake(calls[i], agent.base.openrouter_models,
                           CallerPrompt[i])} :
         caller_moves(i, c)

\* caller i has its text
caller_returns(i) ==
    /\ calls[i].pc = "done"
    /\ caller_moves(i, NoCall(0))

ConcurrentNext ==
    \/ build_agent
    \/ \E i \in Callers : caller_enters(i)
    \/ \E i \in Callers : caller_response(i)
    \/ \E i \in Callers : caller_wakes(i)
    \/ \E i \in Callers : caller_returns(i)

\* an environment with a usable OpenRouter key
ConcurrentInit ==
    /\ Init
    /\ env.USE_LANGGRAPH = Some("false")
    /\ env.OPENROUTER_API_KEY = Some("sk-or-v1-8f2c41")
    /\ env.GROQ_API_KEY = None
    /\ ~env.Groq_requires_key
    /\ env.models_set \in 1..MaxConcurrentModels

ConcurrentSpec == ConcurrentInit /\ [][ConcurrentNext]_vars

(***************************************************************************)
(* Properties                                                              *)
(***************************************************************************)
RECURSIVE SumTo(_, _)
SumTo(f, n) == IF n = 0 THEN 0 ELSE f[n] + SumTo(f, n - 1)

\* the number of requests a call has sent
total_sent(c) == SumTo(c.sent, Len(c.sent))

\* every model before k was sent one request and answered it with HTTP 404
only_404_before(c, k) ==
    \A j \in 1..(k - 1) : c.sent[j] = 1 /\ j \in c.got404

\* C1: in call_openrouter with a configured key, when every model before k
\* answered its request with 404 and model k answers with a non-empty
\* content, the call returns exactly that content and no request is sent to
\* a model after k
C1_FallbackReturnsFirstAnswer ==
    \A k \in DOMAIN call.sent :
        (call.answered = k /\ only_404_before(call, k))
        => /\ call.pc = "done"
           /\ call.content \in Contents
           /\ call.result = call.content
           /\ \A j \in DOMAIN call.sent : j > k => call.sent[j] = 0

\* C1, the case of the scenario: three models, model 1 answers 404, model 2
\* answers, model 3 gets no request
C1_Witness ==
    /\ call.pc = "done"
    /\ call.answered = 2
    /\ call.got404 = {1}
    /\ call.sent = <<1, 1, 0>>
    /\ call.result \in Contents

\* C2: within one call_openrouter call no model is sent more than
\* max_retries_per_model requests, so the call sends at most
\* len(openrouter_models) * max_retries_per_model requests
C2_RequestsPerModelBounded ==
    /\ \A m \in DOMAIN call.sent : call.sent[m] <= max_retries_per_model
    /\ total_sent(call) <= Len(call.sent) * max_retries_per_model

\* C2: a call that used every retry of every model of a list of two or more
C2_Witness ==
    /\ call.pc = "done"
    /\ Len(call.sent) >= 2
    /\ \A m \in DOMAIN call.sent : call.sent[m] = max_retries_per_model

\* C3: call_openrouter terminates whatever the remote answers, and when no
\* response carried a non-empty content it returns the demo response of
\* _get_demo_openrouter_response for the prompt
C3_TerminatesWithDemoFallback ==
    /\ []((call.pc = "done" /\ call.answered = 0)
            => call.result = _get_demo_openrouter_response(proc.prompt))
    /\ (call.pc \in {"posting", "sleeping"}) ~> (call.pc = "done")

\* C3: every model of a list of two or more was tried to exhaustion and
\* the call returned the demo response
C3_Witness ==
    /\ call.pc = "done"
    /\ call.answered = 0
    /\ Len(call.sent) >= 2
    /\ \A m \in DOMAIN call.sent : call.sent[m] = max_retries_per_model
    /\ call.result \in {DemoReverseString, DemoSortList, DemoCodingTutor}

\* C4: process never raises; an exception raised inside it becomes a record
\* with the fixed apology as response and "error" as model_used, and the
\* response does not contain the text of the exception
C4_ProcessNeverRaises ==
    /\ proc.pc # "raised"
    /\ (proc.pc # "idle" /\ ~request.is_str)
         => /\ proc.pc = "returned"
            /\ proc.result.response = ApologyText
            /\ proc.result.model_used = "error"
            /\ ~contains(proc.result.response, NotAStringError)

\* C4: process was called with a query that is no str and has returned
C4_Witness ==
    /\ ~request.is_str
    /\ proc.pc = "returned"
    /\ proc.result.model_used = "error"
    /\ proc.handlers = <<>>

\* the query of the request in progress contains `cue`, case ignored
query_has(cue) == contains(lower(request.query), cue)

\* C5: a query whose lowercased text contains "flashcard" or "card" is
\* handled by the flashcard tool, whatever subject or coding keywords it has
C5_FlashcardCueSelectsFlashcardTool ==
    (proc.pc # "idle" /\ (query_has("flashcard") \/ query_has("card")))
        => proc.handlers = <<"flashcard">>

\* C6: a query with the cue "explain" and no flashcard, card or note cue is
\* handled by concept_explainer
C6_ExplainCueSelectsConceptExplainer ==
    (/\ proc.pc # "idle"
     /\ query_has("explain")
     /\ ~query_has("flashcard") /\ ~query_has("card") /\ ~query_has("note"))
        => proc.handlers = <<"concept_explainer">>

Handlers ==
    {"call_openrouter", "call_groq", "note_maker", "flashcard", "concept_explainer"}

\* C7: a process call classifies once and invokes exactly one handler, and
\* the classification in its record is the branch taken: coding with
\* call_openrouter, academic and general with call_groq
C7_ExactlyOneHandlerSinglePass ==
    proc.pc # "idle"
        => /\ proc.classified = 1
           /\ Len(proc.handlers) = 1
           /\ proc.handlers[1] \in Handlers
           /\ (call.pc # "idle") <=> (proc.handlers[1] = "call_openrouter")
           /\ (groq.pc # "idle") <=> (proc.handlers[1] = "call_groq")
           /\ proc.pc = "returned"
                => /\ proc.result.classification = proc.classification
                   /\ (proc.result.classification = "coding")
                        <=> (proc.handlers[1] = "call_openrouter")
                   /\ (proc.result.classification \in {"academic", "general"})
                        <=> (proc.handlers[1] = "call_groq")

\* C7: a request of the academic branch has been served by call_groq,
\* with one remote request
C7_Witness ==
    /\ proc.pc = "returned"
    /\ proc.result.classification = "academic"
    /\ proc.handlers = <<"call_groq">>
    /\ groq.requests = 1

\* C8: when a model of the fallback list produced the answer, model_used of
\* the record is the identifier of that model
C8_ModelUsedIsAnsweringModel ==
    /\ (proc.pc = "returned" /\ call.pc = "done" /\ call.answered > 0)
         => proc.result.model_used = agent.base.openrouter_models[call.answered]
    /\ (proc.pc = "returned" /\ groq.pc = "done" /\ groq.result \in Contents)
         => proc.result.model_used = groq_default_model

\* C9: with USE_LANGGRAPH enabled a request is processed by the graph
\* dispatcher (architecture "langgraph", agent "tutor_langgraph"), with it
\* disabled by the direct one (architecture "standard")
C9_FlagSelectsDispatcher ==
    (http.pc = "responded" /\ http.status = 200)
        => IF USE_LANGGRAPH(env)
           THEN http.body.architecture = "langgraph"
                /\ http.body.agent = "tutor_langgraph"
           ELSE http.body.architecture = "standard"

\* C10: with the credentials of a model caller absent or the placeholder,
\* the call returns the demo response, sends no request and raises nothing
C10_UnconfiguredKeyGivesDemo ==
    /\ (/\ proc.pc # "idle"
        /\ proc.handlers = <<"call_openrouter">>
        /\ env.OPENROUTER_API_KEY \in {None, Some("sk-or-v1-your-key-here")})
         => /\ call.pc = "done"
            /\ total_sent(call) = 0
            /\ call.result = _get_demo_openrouter_response(proc.prompt)
            /\ proc.pc = "returned"
            /\ proc.result.response = call.result
    /\ (/\ proc.pc # "idle"
        /\ proc.handlers = <<"call_groq">>
        /\ env.GROQ_API_KEY \in {None, Some("gsk_your_key_here")})
         => /\ groq.pc = "done"
            /\ groq.requests = 0
            /\ groq.result = _get_demo_groq_response(proc.prompt)
            /\ proc.pc = "returned"
            /\ proc.result.response = groq.result

\* C10: a coding request was served with the placeholder key
C10_Witness ==
    /\ proc.pc = "returned"
    /\ proc.handlers = <<"call_openrouter">>
    /\ env.OPENROUTER_API_KEY = Some("sk-or-v1-your-key-here")
    /\ total_sent(call) = 0
    /\ call.result = DemoSortList

(***************************************************************************)
(* Properties of the extractor, the validator and the tools                *)
(***************************************************************************)
\* the numerals of s that stand before `word`: a maximal run of digits,
\* then spaces, then the word
numerals_before(s, word) ==
    {int_of(s, from, to) : <<from, to>> \in
        {r \in (1..Len(s)) \X (1..Len(s)) :
            /\ r[1] <= r[2]
            /\ \A k \in r[1]..r[2] : is_digit(s, k)
            /\ ~is_digit(s, r[1] - 1)
            /\ ~is_digit(s, r[2] + 1)
            /\ \E w \in (r[2] + 1)..(Len(s) + 1 - Len(word)) :
                  /\ \A k \in (r[2] + 1)..(w - 1) : SubSeq(s, k, k) = " "
                  /\ SubSeq(s, w, w + Len(word) - 1) = word}}

\* an extraction has been made, and its bag is the one held for the tools
bag_extracted ==
    /\ extraction.last # <<>>
    /\ extraction.pc \in {"extracted", "ran"}
    /\ extraction.params = boxed(extraction.last.bag)

\* C11: for a query with a bare numeral N followed by "flashcards", the
\* extracted count is N, and generate_flashcards on that bag returns
\* exactly N cards
C11_NumeralBeforeFlashcardsIsCount ==
    bag_extracted =>
        \A N \in numerals_before(lower(extraction.last.query), "flashcards") :
            /\ extraction.last.bag.count = N
            /\ (extraction.pc = "ran" /\ extraction.tool = "flashcard") =>
                   /\ ~extraction.out.raised
                   /\ Len(extraction.out.value.flashcards) = N

\* the keys of a parameter bag
fixed_key_set ==
    {"topic", "subject", "difficulty", "count", "num_questions",
     "teaching_style", "emotional_state", "mastery_level", "question_type",
     "include_examples", "include_analogies", "note_taking_style",
     "desired_depth", "concept_to_explain", "user_id", "grade_level"}

\* the bag of defaults under a context: the context's value for the keys
\* read from it, when it has one
default_bag(context) ==
    LET of_context(key, default) ==
            IF key \in DOMAIN context THEN context[key] ELSE default
    IN  [topic |-> "general topic", subject |-> "general",
         difficulty |-> "medium", count |-> 5, num_questions |-> 5,
         teaching_style |-> of_context("teaching_style", "direct"),
         emotional_state |-> "neutral",
         mastery_level |-> of_context("mastery_level", "intermediate"),
         question_type |-> "mixed", include_examples |-> FALSE,
         include_analogies |-> FALSE, note_taking_style |-> "outline",
         desired_depth |-> "moderate",
         concept_to_explain |-> "general concept",
         user_id |-> of_context("user_id", "guest"),
         grade_level |-> of_context("grade_level", "general")]

\* the extractions the state records: the first and the latest one made on
\* the extractor
extractions ==
    IF extraction.last = <<>> THEN {}
    ELSE {extraction.first, extraction.last}

\* C12: for every query (the empty one included) and every context record,
\* the bag extract_parameters returns has exactly the 16 fixed keys, and
\* for the empty query every key has its default, the topic being
\* "general topic"
C12_BagHasExactlyTheFixedKeys ==
    \A e \in extractions :
        /\ DOMAIN e.bag = fixed_key_set
        /\ Cardinality(DOMAIN e.bag) = 16
        /\ e.query = "" =>
              /\ e.bag.topic = "general topic"
              /\ e.bag = default_bag(e.context)

\* the empty query has been extracted under the empty context, after an
\* extraction of another query
C12_Witness ==
    /\ extraction.pc = "extracted"
    /\ extraction.last.query = ""
    /\ extraction.last.context = <<>>
    /\ extraction.first.query # ""
    /\ extraction.last.bag.topic = "general topic"

C14_EasyMultipleChoiceScenario ==
    \A e \in extractions :
        e.query = "Give me 3 easy multiple choice questions on derivatives" =>
            /\ e.bag.difficulty = "easy"
            /\ e.bag.count = 3
            /\ e.bag.question_type = "multiple_choice"
            /\ e.bag.subject = "mathematics"

\* the examples a tool's output carries: the list of the notes section or
\* of the explanation, the example of each card
examples_given(tool, value) ==
    CASE tool = "note_maker" -> value.note_sections[1].examples # <<>>
      [] tool = "flashcard" ->
            \A i \in DOMAIN value.flashcards :
                value.flashcards[i].example # ""
      [] tool = "concept_explainer" -> value.examples # <<>>

\* C16: the three tools never fail, whatever bag they are given (keys
\* missing, keys set to the None of validate_parameters): a missing count
\* is 5, missing include_examples is true, missing include_analogies is
\* false; the output is a function of the bag, and the bag is left as given
C16_ToolsNeverFail ==
    extraction.pc = "ran" =>
        LET tool == extraction.tool
            params == extraction.params
            out == extraction.out
        IN  /\ ~out.raised
            /\ out = run_tool(tool, params)
            /\ extraction.params_after = params
            /\ (tool = "flashcard" /\ "count" \notin DOMAIN params) =>
                   Len(out.value.flashcards) = 5
            /\ "include_examples" \notin DOMAIN params =>
                   examples_given(tool, out.value)
            /\ (tool = "note_maker" /\ "include_analogies" \notin DOMAIN params) =>
                   out.value.note_sections[1].analogies = <<>>

(***************************************************************************)
(* Properties of the HTTP boundary                                         *)
(***************************************************************************)
\* a query of no character, or of whitespace only
is_blank(q) == \A i \in 1..Len(q) : SubSeq(q, i, i) \in Whitespace

\* nothing of the core has run for the request: no agent was constructed,
\* process was not entered (nothing classified, no handler), no model
\* caller was called, and db.add was not called
core_untouched ==
    /\ agent = NoAgent
    /\ proc = NoProcess
    /\ call = NoCall(0)
    /\ groq = NoGroq
    /\ ~http.db_add

\* C15 as stated: an empty or whitespace-only query is answered with 400
\* 'Query cannot be empty' before any agent is constructed and before
\* classification; no handler is invoked and nothing is persisted
C15_BlankQueryGets400 ==
    (http.pc # "idle" /\ is_blank(request.query)) =>
        /\ http.pc = "responded"
        /\ http.status = 400
        /\ http.body = [detail |-> "Query cannot be empty"]
        /\ core_untouched

\* C15, amended: a blank query is rejected at the boundary before any agent
\* is constructed and before classification, with no handler invoked and
\* nothing persisted; the empty query is refused by the validation of the
\* request (422), a whitespace-only one by ask_tutor with 400 'Query
\* cannot be empty'
C15_BlankQueryRejectedAtBoundary ==
    (http.pc # "idle" /\ is_blank(request.query)) =>
        /\ http.pc = "responded"
        /\ IF request.query = ""
           THEN http.status = 422
           ELSE /\ http.status = 400
                /\ http.body = [detail |-> "Query cannot be empty"]
        /\ core_untouched

\* a whitespace-only query has been answered with the 400
C15_Witness ==
    /\ http.pc = "responded"
    /\ request.query = "   "
    /\ http.status = 400
    /\ core_untouched

(***************************************************************************)
(* Properties of the retry policy of call_openrouter, stated on its steps  *)
(***************************************************************************)
\* the step is call_openrouter receiving a response of this outcome
response_step(outcome, content) ==
    /\ call.pc = "posting"
    /\ call' = on_response(call, outcome, content,
                           agent.base.openrouter_models, proc.prompt)

\* a response of this outcome is followed by `then`: the step, unless it
\* is `then`, is not the receipt of such a response
response_gives(outcome, content, then) ==
    ~then => ~response_step(outcome, content)

\* the step ends a sleep of call_openrouter
wake_step == call.pc = "sleeping" /\ call' # call

\* after the step the call sleeps `seconds`, at the same iteration and
\* with no request sent
sleeps_for(seconds) ==
    /\ call'.pc = "sleeping"
    /\ call'.wait = seconds
    /\ call'.model = call.model
    /\ call'.retry = call.retry
    /\ call'.sent = call.sent

\* the step sends the next request to the same model, as its next retry
retries_same_model ==
    /\ call'.pc = "posting"
    /\ call'.model = call.model
    /\ call'.retry = call.retry + 1
    /\ call'.sent = [call.sent EXCEPT ![call.model] = @ + 1]

\* the step leaves the model without a sleep: the next request goes to the
\* next model of the list, or the list is exhausted and the call returns
moves_to_next_model ==
    IF call.model < Len(call.sent)
    THEN /\ call'.pc = "posting"
         /\ call'.model = call.model + 1
         /\ call'.retry = 0
         /\ call'.sent = [call.sent EXCEPT ![call.model + 1] = @ + 1]
    ELSE /\ call'.pc = "done"
         /\ call'.sent = call.sent

\* within a call the position in the list never goes back, and a request
\* is sent to no model but the one of the position
position_only_advances ==
    (call.pc \in {"posting", "sleeping"} /\ call'.pc # "idle") =>
        /\ call'.model \in {call.model, call.model + 1}
        /\ \A i \in DOMAIN call.sent :
              i # call'.model => call'.sent[i] = call.sent[i]

\* the outcomes that give up the model
RejectionOutcomes == {"401", "403", "404", "nochoices"}

\* C17: after a model answers 401, 403 or 404, or a success without
\* choices, the next request (if any) goes to the next model of the list,
\* and that model is sent no further request in the call, retries
\* remaining or not
C17_RejectedModelIsAbandoned ==
    [][/\ \A o \in RejectionOutcomes :
             response_gives(o, "", moves_to_next_model)
       /\ position_only_advances]_vars

\* model 1 answered 404 to its first request, a retry remaining, and the
\* next request has gone to model 2
C17_Witness ==
    /\ call.pc = "posting"
    /\ call.model = 2
    /\ call.retry = 0
    /\ call.got404 = {1}
    /\ call.sent[1] = 1
    /\ call.sent[1] < max_retries_per_model
    /\ call.sent[2] = 1

\* the call sleeps after a 429: the wait of a 429 at retry r is 3 * 2^r,
\* the other sleeps are of 1 and 2 seconds
sleeping_after_429 ==
    call.pc = "sleeping" /\ call.wait = 3 * (2 ^ call.retry)

\* C18 as stated: a 429 on retry index r is followed by a wait of 3 * 2^r
\* seconds and then by a retry of the same model; it causes no transition
\* to the next model
C18_RateLimitRetriesSameModel ==
    [][/\ response_gives("429", "", sleeps_for(3 * (2 ^ call.retry)))
       /\ (sleeping_after_429 /\ wake_step) => retries_same_model]_vars

\* C18, amended: a 429 on retry index r is followed by a wait of 3 * 2^r
\* seconds; after the wait the same model is retried when r is below
\* max_retries_per_model - 1, and on the last retry index the loop moves
\* to the next model (or returns the demo response after the last model)
C18_RateLimitWaitsThenRetriesWithinCap ==
    [][/\ response_gives("429", "", sleeps_for(3 * (2 ^ call.retry)))
       /\ (sleeping_after_429 /\ wake_step) =>
              IF call.retry < max_retries_per_model - 1
              THEN retries_same_model
              ELSE moves_to_next_model]_vars

\* a 429 has answered the last retry of a model: the call waits 3 * 2^r
\* seconds with r = max_retries_per_model - 1
C18_Witness ==
    /\ sleeping_after_429
    /\ call.retry = max_retries_per_model - 1
    /\ call.retry > 0
    /\ call.sent[call.model] = max_retries_per_model

\* C19: below the last retry index a timeout is followed by a 2-second
\* sleep and any other exception (a 5xx of raise_for_status included) by
\* a 1-second sleep, then by a retry of the same model; on the last retry
\* index the loop goes to the next model without sleeping
C19_TimeoutAndErrorBackoff ==
    [][/\ response_gives("timeout", "",
                          IF call.retry < max_retries_per_model - 1
                          THEN sleeps_for(2) ELSE moves_to_next_model)
       /\ \A o \in {"500", "network"} :
              response_gives(o, "",
                             IF call.retry < max_retries_per_model - 1
                             THEN sleeps_for(1) ELSE moves_to_next_model)
       /\ (call.pc = "sleeping" /\ call.wait \in {1, 2} /\ wake_step) =>
              retries_same_model]_vars

\* the second model timed out on its first request and the call sleeps
\* 2 seconds before the retry
C19_Witness ==
    /\ call.pc = "sleeping"
    /\ call.wait = 2
    /\ call.model = 2
    /\ call.retry = 0
    /\ call.retry < max_retries_per_model - 1

\* C20: requests go out in the order of the fallback list: a model is sent
\* a request only once every model before it was given up or has used all
\* its retries, the loop never returns to a model it has left, and on the
\* first response with non-empty content the call returns that content at
\* once, with no further request or sleep
C20_ListOrderAndImmediateReturn ==
    /\ [](\A j \in DOMAIN call.sent :
            call.sent[j] > 0 =>
                /\ j <= call.model
                /\ \A i \in 1..(j - 1) : call.sent[i] >= 1)
    /\ [][/\ position_only_advances
          /\ (call.pc \in {"posting", "sleeping"}
                 /\ call'.pc # "idle" /\ call'.model = call.model + 1) =>
                \/ call.sent[call.model] = max_retries_per_model
                \/ \E o \in RejectionOutcomes : response_step(o, "")
          /\ \A c \in Contents :
                response_gives("content", c,
                               /\ call'.pc = "done"
                               /\ call'.result = c
                               /\ call'.sent = call.sent
                               /\ call'.wait = 0)
          /\ (call.pc = "done" /\ call' # call) => call'.pc = "idle"]_vars

\* model 1 used all its retries without an answer, model 2 answered its
\* first request with content, and the call returned it with model 3 never
\* asked
C20_Witness ==
    /\ call.pc = "done"
    /\ call.answered = 2
    /\ call.got404 = {}
    /\ call.sent = <<max_retries_per_model, 1, 0>>
    /\ call.result = call.content
    /\ call.result \in Contents

(***************************************************************************)
(* Properties of the classifier                                            *)
(***************************************************************************)
\* the keywords of a table that occur in the lowercased query
keywords_in(keywords, query) ==
    {keywords[i] : i \in {j \in DOMAIN keywords :
                              contains(lower(query), keywords[j])}}

\* C21: _classify_query returns one of coding, academic, general for every
\* query: coding exactly when two or more distinct coding keywords occur
\* in the lowercased query or a code pattern matches, else academic
\* exactly when an academic keyword occurs, else general; the coding test
\* comes before the academic keywords (stated on the step in which
\* process classifies the query)
C21_ClassificationByKeywordCounts ==
    [][(proc.classified = 0 /\ proc'.classified = 1 /\ request'.is_str) =>
        \E is_coding \in
              {\/ Cardinality(keywords_in(coding_keywords, request'.query)) >= 2
               \/ has_code_patterns(request'.query, lower(request'.query))} :
          \E is_academic \in
                {keywords_in(academic_keywords, request'.query) # {}} :
            /\ proc'.classification \in {"coding", "academic", "general"}
            /\ proc'.classification = "coding" <=> is_coding
            /\ proc'.classification = "academic" <=> (~is_coding /\ is_academic)
            /\ proc'.classification = "general"
                  <=> (~is_coding /\ ~is_academic)]_vars

\* a query with two coding keywords and an academic keyword has been
\* classified coding
C21_Witness ==
    /\ proc.classified = 1
    /\ request.query = "Explain the python function"
    /\ keywords_in(academic_keywords, request.query) = {"explain"}
    /\ keywords_in(coding_keywords, request.query) = {"python", "function"}
    /\ proc.classification = "coding"

(***************************************************************************)
(* Properties of the dispatcher                                            *)
(***************************************************************************)
\* the query has a tool-intent cue: flashcard or card, note, explain
has_tool_cue ==
    \E cue \in {"flashcard", "card", "note", "explain"} : query_has(cue)

\* C22: for a query without a tool-intent cue the handler is chosen by the
\* extracted subject: computer_science, coding or programming selects the
\* OpenRouter path, any other subject the Groq path
C22_SubjectSelectsModelPath ==
    (proc.pc # "idle" /\ request.is_str /\ ~has_tool_cue) =>
        proc.handlers =
            IF _extract_subject(ParameterExtractor_init, request.query)
                   \in {"computer_science", "coding", "programming"}
            THEN <<"call_openrouter">>
            ELSE <<"call_groq">>

(***************************************************************************)
(* Properties of the keys extract_parameters reads from the context        *)
(***************************************************************************)
\* C23: the context's teaching_style is used only when the caller supplied
\* it as an override; under a context that carries the default value (a
\* default UserContext) or none, teaching_style is inferred from the cue
\* words of the query (visual, socratic, flipped, else direct)
C23_TeachingStyleOverrideOnly ==
    \A e \in extractions :
        e.bag.teaching_style =
            IF "teaching_style" \in DOMAIN e.context
                   /\ e.context # UserContext_dict
            THEN e.context.teaching_style
            ELSE _infer_teaching_style(e.query)

\* C24: mastery_level is the context's mastery_level_summary whenever the
\* context has one ("Level 7: Proficient" for a default UserContext) and
\* "intermediate" only without it; user_id and grade_level are the
\* context's, "guest" and "general" when absent
C24_MasteryFromSummary ==
    \A e \in extractions :
        /\ e.bag.mastery_level =
              IF "mastery_level_summary" \in DOMAIN e.context
              THEN e.context.mastery_level_summary
              ELSE "intermediate"
        /\ e.bag.user_id =
              IF "user_id" \in DOMAIN e.context
              THEN e.context.user_id ELSE "guest"
        /\ e.bag.grade_level =
              IF "grade_level" \in DOMAIN e.context
              THEN e.context.grade_level ELSE "general"

(***************************************************************************)
(* Properties of validate_parameters                                       *)
(***************************************************************************)
\* C25: the bag validate_parameters returns has as keys the required
\* fields and the optional fields that params has; a required field of
\* params keeps its value even when the schema has a default, an absent
\* one takes the schema default, or None when there is none; an optional
\* field absent from params is not added; params is left unchanged
C25_ValidatedBag ==
    extraction.schema # None =>
        LET schema == extraction.schema[1]
            params == extraction.given
            validated == extraction.params
            required == schema.required_fields
            optional == {schema.optional_fields[i] :
                            i \in DOMAIN schema.optional_fields}
        IN  /\ extraction.pc = "validated" =>
                 /\ DOMAIN validated =
                        DOMAIN required \cup (optional \cap DOMAIN params)
                 /\ \A f \in DOMAIN required :
                        validated[f] =
                            IF f \in DOMAIN params THEN params[f]
                            ELSE IF "default" \in DOMAIN required[f]
                            THEN Some(required[f].default)
                            ELSE None
                 /\ \A f \in optional \cap DOMAIN params :
                        validated[f] = params[f]
                 /\ \A f \in optional \ (DOMAIN params \cup DOMAIN required) :
                        f \notin DOMAIN validated
            /\ extraction.given_after = params

\* a bag with a topic has been validated against the schema whose required
\* topic has a default: the topic of the bag is kept, and the optional
\* fields the bag lacks are not added
C25_Witness ==
    /\ extraction.pc = "validated"
    /\ extraction.given = [topic |-> Some("Photosynthesis")]
    /\ extraction.schema[1].required_fields.topic = [default |-> "General"]
    /\ extraction.params = [topic |-> Some("Photosynthesis")]

(***************************************************************************)
(* Properties of call_groq                                                 *)
(***************************************************************************)
\* the canned answer for a prompt: the one on photosynthesis, the one on
\* machine learning, else the generic one
canned_groq_answer(prompt) ==
    IF contains(lower(prompt), "photosynthesis") THEN DemoGroqPhotosynthesis
    ELSE IF contains(lower(prompt), "machine learning")
    THEN DemoGroqMachineLearning
    ELSE DemoGroqGeneric

\* C27: call_groq does not retry and does not raise: a call makes at most
\* one remote request, and when that request fails (an exception of any
\* kind, or an empty content) the call returns in the same step the canned
\* answer selected by the keywords of the prompt
C27_GroqSingleAttemptDemoOnFailure ==
    /\ [](groq.requests <= 1 /\ proc.pc # "raised")
    /\ [][(groq.pc = "requesting" /\ groq' # groq) =>
            /\ groq'.pc = "done"
            /\ groq'.requests = 1
            /\ \/ groq'.result \in Contents
               \/ groq'.result = canned_groq_answer(proc.prompt)
            /\ \A o \in {"exception", "empty"} :
                  groq'.result = canned_groq_answer(proc.prompt)
                      \/ groq' # on_groq_outcome(groq, o, "", proc.prompt)]_vars

\* the one request of a call on a photosynthesis prompt has failed and the
\* call returned the canned answer on photosynthesis
C27_Witness ==
    /\ groq.pc = "done"
    /\ groq.requests = 1
    /\ contains(lower(proc.prompt), "photosynthesis")
    /\ groq.result = DemoGroqPhotosynthesis

\* whether the request being served reached get_agent and, there, the call
\* LangGraphTutorAgent()
constructs_graph_now == http.pc = "idle" /\ http'.graph_attempt

\* C28: with the flag enabled and the construction of the graph dispatcher
\* raising, get_agent returns a TutorAgent with architecture "standard" and
\* the error does not reach the caller; with the flag disabled no
\* construction is attempted; the construction is attempted once in the
\* life of the process, not once per request
C28_GraphConstructedOncePerProcess ==
    /\ [](http.pc # "idle" /\ http.status \notin {400, 422}
            => IF USE_LANGGRAPH(env)
               THEN LangGraphTutorAgent_init_raises
                        => /\ agent.class = "TutorAgent"
                           /\ http.architecture = "standard"
               ELSE ~http.graph_attempt)
    /\ [][constructs_graph_now => ~history.graph_attempted]_vars

\* C29: a success whose choices are present and whose content is empty
\* neither ends the call nor gives up the model: while a retry remains the
\* same model is requested again at once, with no sleep, as its next retry;
\* at the last retry the next request goes to the next model; and a call
\* whose every response, on every model, had an empty content returns the
\* demo response
C29_EmptyContentRetriesThenDemo ==
    /\ [][response_gives("empty", "",
                         IF call.retry < max_retries_per_model - 1
                         THEN retries_same_model
                         ELSE moves_to_next_model)]_vars
    /\ []((call.pc = "done" /\ call.only_empty) =>
            /\ call.answered = 0
            /\ call.result = _get_demo_openrouter_response(proc.prompt)
            /\ \/ \A i \in DOMAIN call.sent : call.sent[i] = 0
               \/ \A i \in DOMAIN call.sent :
                     call.sent[i] = max_retries_per_model)

\* every model of a list of at least two was requested as often as a model
\* may be, each response had an empty content, and the call has returned
C29_Witness ==
    /\ call.pc = "done"
    /\ call.only_empty
    /\ Len(call.sent) >= 2
    /\ \A i \in DOMAIN call.sent : call.sent[i] = max_retries_per_model
    /\ call.result = _get_demo_openrouter_response(proc.prompt)

\* the query of the AgentState has the cue
state_query_has(cue) == contains(lower(graph.state.query), cue)

own_step(i) ==
    /\ \A j \in Callers \ {i} : calls'[j] = calls[j]
    /\ LET c == calls[i]
           models == _load_fallback_models(env)
       IN  CASE c.pc = "idle" ->
                   /\ calls'[i].pc = "posting"
                   /\ calls'[i].model = 1
                   /\ calls'[i].retry = 0
                   /\ calls'[i].sent =
                         [m \in DOMAIN models |-> IF m = 1 THEN 1 ELSE 0]
             [] c.pc = "posting" ->
                   \E outcome \in Outcomes :
                     \E content \in Contents \cup {""} :
                       calls'[i] = on_response(c, outcome, content, models,
                                               CallerPrompt[i])
             [] c.pc = "sleeping" ->
                   calls'[i] = on_wake(c, models, CallerPrompt[i])
             [] OTHER -> calls'[i] = NoCall(0)

\* C26: call_openrouter never changes the fallback list or
\* current_model_index of the agent; the position in the list is local to
\* the call: with two calls on one agent interleaved at their awaits, each
\* starts at the first model, and each moves through the list by its own
\* responses only, whatever the progress of the other
C26_PositionIsLocalToEachCall ==
    /\ [](agent # NoAgent =>
            /\ agent.base.openrouter_models = _load_fallback_models(env)
            /\ agent.base.current_model_index = 0)
    /\ [][calls' # calls => \E i \in Callers : own_step(i)]_vars

\* caller a is at its second model while caller b, on the same agent, has
\* its first request to the first model in flight
C26_Witness ==
    /\ agent # NoAgent
    /\ Len(agent.base.openrouter_models) >= 2
    /\ calls["a"].pc = "posting"
    /\ calls["a"].model = 2
    /\ calls["b"].pc = "posting"
    /\ calls["b"].model = 1
    /\ calls["b"].retry = 0
    /\ calls["b"].sent[1] = 1
    /\ agent.base.current_model_index = 0

=============================================================================
